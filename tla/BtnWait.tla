------------------------------- MODULE BtnWait -------------------------------
(***************************************************************************)
(* The USER button of the video player: btnwait.c samples the line every   *)
(* 10 ms, reports one press as "short" or "long" and exits;                *)
(* nix-badge-video.sh runs it again and again under `timeout 2'. The       *)
(* button's contacts bounce after both edges. One tick is 10 ms.           *)
(***************************************************************************)
EXTENDS Integers

CONSTANTS
    DEBOUNCE,   \* 30 ms: anything this brief is not a press
    LONG,       \* long_ms
    TIMEOUT,    \* timeout 2
    BOUNCE,     \* the contacts settle within this many ticks, below DEBOUNCE
    MaxHeld,    \* bound: longest hold
    MaxGap,     \* bound: longest time between two runs of btnwait
    MaxPresses  \* bound

VARIABLES
    turn,       \* "world" | "btnwait": a tick, then a sample
    down, settle, held, presses,    \* the finger, ticks of bouncing left, ticks held
    line,       \* what GET_VALUES reads: 1 is released
    on, age, gap,   \* an instance of btnwait runs, and for how long; ticks since the last
    prev, at,   \* prev; ticks since pressed_at, -1 for its 0
    seen, last, \* reports of this press, the last one
    whole       \* this press began under the instance that runs

button == <<down, settle, held, presses, line>>
wait == <<on, age, gap, prev, at>>
vars == <<turn, button, wait, seen, last, whole>>

Init ==
    /\ turn = "world"
    /\ down = FALSE /\ settle = 0 /\ held = 0 /\ presses = 0 /\ line = 1
    /\ on = FALSE /\ age = 0 /\ gap = 0 /\ prev = 1 /\ at = -1
    /\ seen = 0 /\ last = [long |-> FALSE, whole |-> FALSE] /\ whole = FALSE

Older(n) == IF n = -1 THEN -1 ELSE n + 1

(* A tick: the finger moves, or not; a bouncing line reads anything. *)
Tick(moves) ==
    /\ turn = "world" /\ turn' = "btnwait"
    /\ on \/ gap < MaxGap
    /\ moves => down \/ (settle = 0 /\ presses < MaxPresses)
    /\ down => moves \/ held < MaxHeld
    /\ down' = (down # moves)
    /\ presses' = IF moves /\ ~down THEN presses + 1 ELSE presses
    /\ held' = IF moves /\ ~down THEN 0 ELSE IF down THEN held + 1 ELSE held
    /\ settle' = IF moves THEN BOUNCE ELSE IF settle > 0 THEN settle - 1 ELSE 0
    /\ line' \in IF settle' > 0 THEN {0, 1} ELSE {IF down' THEN 0 ELSE 1}
    /\ age' = IF on THEN age + 1 ELSE age
    /\ gap' = IF on THEN gap ELSE gap + 1
    /\ at' = Older(at)
    /\ seen' = IF moves /\ ~down THEN 0 ELSE seen
    /\ whole' = IF moves /\ ~down THEN on ELSE whole
    /\ UNCHANGED <<on, prev, last>>

Gone == on' = FALSE /\ age' = 0 /\ gap' = 0 /\ prev' = 1 /\ at' = -1 /\ whole' = FALSE

(* The script's loop comes round to btnwait again; its first sample, if    *)
(* the button is down already, takes that for the start of a press.        *)
Launch ==
    /\ turn = "btnwait" /\ ~on
    /\ on' = TRUE /\ age' = 0 /\ gap' = 0
    /\ prev' = line /\ at' = IF line = 0 THEN 0 ELSE -1
    /\ turn' = "world" /\ UNCHANGED <<button, seen, last, whole>>

(* Nothing samples: the script reads the HPD or restarts the player, or a   *)
(* btnwait found no line of that name on any chip and returned 2.           *)
Idle ==
    /\ turn = "btnwait" /\ ~on
    /\ turn' = "world" /\ UNCHANGED <<button, wait, seen, last, whole>>

(* Mutant: any release after a press is a press. *)
IsPressAny(n) == n >= 0

(* held >= 30: not contact bounce. *)
IsPress(n) == n >= DEBOUNCE

(* prev == 1 && cur == 0 *)
Falls == prev = 1 /\ line = 0

(* held >= long_ms *)
IsLong(n) == n >= LONG

(* One round of the sampling loop. *)
Sample ==
    /\ turn = "btnwait" /\ on /\ age < TIMEOUT
    /\ turn' = "world"
    /\ IF prev = 0 /\ line = 1 /\ at # -1 /\ IsPress(at)
       THEN /\ seen' = seen + 1 /\ last' = [long |-> IsLong(at), whole |-> whole]
            /\ Gone
       ELSE /\ at' = IF Falls THEN 0
                     ELSE IF prev = 0 /\ line = 1 THEN -1       \* a bounce
                     ELSE at
            /\ prev' = line
            /\ UNCHANGED <<on, age, gap, seen, last, whole>>
    /\ UNCHANGED button

(* timeout 2 kills it, in the middle of a press or not. *)
Kill ==
    /\ turn = "btnwait" /\ on /\ age >= TIMEOUT
    /\ turn' = "world" /\ Gone
    /\ UNCHANGED <<button, seen, last>>

Next == (\E moves \in BOOLEAN : Tick(moves)) \/ Launch \/ Idle \/ Sample \/ Kill

Spec == Init /\ [][Next]_vars

-----------------------------------------------------------------------------
(* However the contacts bounce and wherever the two seconds end, one press  *)
(* of the button moves the player by at most one clip, and a press that is  *)
(* all bounce by none.                                                      *)
OneClipPerPress == seen <= 1 /\ (seen = 1 => held + BOUNCE >= DEBOUNCE)

(* A press that began under a btnwait which is still running is reported   *)
(* by the time the contacts have settled, if the two seconds allow it.     *)
PressReported ==
    turn = "world" /\ on /\ whole /\ ~down /\ settle = 0 /\ seen = 0
        => held < DEBOUNCE + BOUNCE

(* A press under one btnwait is reported by its length, the bounce aside:   *)
(* neither a bounce nor an earlier press makes it long, or a long one short. *)
ReportsLength ==
    seen = 1 /\ last.whole =>
        IF last.long THEN held + BOUNCE >= LONG ELSE held < LONG + BOUNCE
=============================================================================
