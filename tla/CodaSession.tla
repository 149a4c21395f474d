---------------------------- MODULE CodaSession ----------------------------
(***************************************************************************)
(* coda-cube's runs around the frame loop (coda-cube.c): what a run takes  *)
(* from the badge and gives back. Two things are the badge's and outlive a *)
(* process: soph_drm's colour parameters, which a --dmabuf or --zero-copy  *)
(* run sets and restores, and the VDEC channel, which is destroyed only by *)
(* the run that created it or by --destroy. Runs may overlap, fail at any  *)
(* step, be stopped or be killed.                                          *)
(*                                                                         *)
(* COLOR_WANT is "want" for both parameters; "auto" and "other" are what a *)
(* run may find.                                                           *)
(***************************************************************************)
EXTENDS Naturals

CONSTANTS Procs, None

NCOLOR == 2
Colours == {"auto", "other", "want"}

VARIABLES
    param,      \* soph_drm's parameters: [0 .. NCOLOR - 1 -> Colours]
    chan,       \* the run whose channel exists in the VDEC driver, or None
    run,        \* the runs: [Procs -> record]
    base,       \* what the parameters were before the runs that are up
    before,     \* [Procs -> the runs that are up and were when this one was started]
    dirty       \* a run was killed, or runs overlapped in a way none of them sees

vars == <<param, chan, run, base, before, dirty>>

Off == [pc |-> "off", i |-> 0, cur |-> "", saved |-> [i \in 0 .. NCOLOR - 1 |-> ""],
        dma |-> FALSE, zero |-> FALSE, user |-> FALSE, root |-> TRUE,
        dev |-> FALSE, created |-> FALSE, failed |-> FALSE]

Up == {p \in Procs : run[p].pc # "off"}
Becomes(p, r) == run' = [run EXCEPT ![p] = r]
Goto(p, pc) == Becomes(p, [run[p] EXCEPT !.pc = pc])

(* return 1 or 4 from main(): exit() runs the handlers, last registered    *)
(* first, so the colours go back before vd_close().                        *)
Fails(r) == [r EXCEPT !.failed = TRUE, !.i = 0, !.cur = "", !.pc = IF r.dma THEN "restore" ELSE "vdclose"]
Fail(p) == Becomes(p, Fails(run[p]))

(* The routes of the options: --user only with --zero-copy. *)
Launch(p) ==
    /\ run[p].pc = "off"
    /\ \E dma, zero, user \in BOOLEAN :
        /\ zero => dma
        /\ user => zero
        /\ Becomes(p, [Off EXCEPT !.pc = IF dma THEN "color" ELSE "vdopen",
                                  !.dma = dma, !.zero = zero, !.user = user])
    /\ before' = [before EXCEPT ![p] = Up]
    /\ dirty' = (dirty \/ \E q \in Up : run[q].pc \in {"color", "colorset", "restore"})
    /\ UNCHANGED <<param, chan, base>>

-----------------------------------------------------------------------------
(* color_set(): per parameter, open and read it, then write COLOR_WANT and *)
(* keep what it was. A write that fails keeps nothing to restore.          *)

ColorRead(p) ==
    /\ run[p].pc = "color"
    /\ \/ Becomes(p, [run[p] EXCEPT !.pc = "colorset", !.cur = param[run[p].i]])
       \/ Fail(p)
    /\ UNCHANGED <<param, chan, base, before, dirty>>

ColorWrite(p) ==
    LET i == run[p].i
    IN  /\ run[p].pc = "colorset"
        /\ \/ /\ param' = [param EXCEPT ![i] = "want"]
              /\ Becomes(p, [run[p] EXCEPT
                    !.saved[i] = run[p].cur, !.cur = "",
                    !.i = IF i + 1 < NCOLOR THEN i + 1 ELSE 0,
                    !.pc = IF i + 1 < NCOLOR THEN "color" ELSE "prepare"])
           \/ Fail(p) /\ UNCHANGED param
        /\ UNCHANGED <<chan, base, before, dirty>>

-----------------------------------------------------------------------------
(* What root opens before the window: with --zero-copy /dev/soph-ion and   *)
(* the decoder device (zc_open, vd_open_dev).                              *)

Prepare(p) ==
    /\ run[p].pc = "prepare"
    /\ \/ Becomes(p, [run[p] EXCEPT !.dev = run[p].zero, !.pc = "window"])
       \/ Fail(p)
    /\ UNCHANGED <<param, chan, base, before, dirty>>

(* drop_to(): --user gives up root for good. *)
DropTo(r) == [r EXCEPT !.root = ~r.user]

(* drop_to(), the SDL window, dmabuf_presenter_create() and db_open(): one  *)
(* that fails ends the run; CodaMaps has what it undoes.                   *)
Window(p) ==
    /\ run[p].pc = "window"
    /\ \/ Becomes(p, [DropTo(run[p]) EXCEPT !.pc = "vdopen"])
       \/ Becomes(p, Fails(DropTo(run[p])))
    /\ UNCHANGED <<param, chan, base, before, dirty>>

-----------------------------------------------------------------------------
(* vd_open(): the device, chn_exists(), /dev/soph-ion unless --zero-copy;  *)
(* then CREATE_CHN, which the driver refuses while the channel exists.     *)

VdOpen(p) ==
    /\ run[p].pc = "vdopen"
    /\ LET opened == [run[p] EXCEPT !.dev = TRUE]
       IN  \/ ~run[p].root /\ ~(run[p].dev /\ run[p].zero) /\ Goto(p, "denied")
           \/ /\ run[p].root \/ (run[p].dev /\ run[p].zero)
              /\ IF chan # None
                 THEN Becomes(p, Fails([run[p] EXCEPT !.dev = FALSE]))
                 ELSE Becomes(p, [opened EXCEPT !.pc = "create"])
           \/ run[p].root /\ Becomes(p, Fails(run[p]))          \* no decoder device
           \/ run[p].root /\ Becomes(p, Fails(opened))          \* no /dev/soph-ion
    /\ UNCHANGED <<param, chan, base, before, dirty>>

(* Mutant: g_created is set before CREATE_CHN's answer is looked at. *)
VdCreateEarly(p) ==
    /\ run[p].pc = "create"
    /\ \/ /\ chan = None /\ chan' = p
          /\ Becomes(p, [run[p] EXCEPT !.created = TRUE, !.pc = "start"])
       \/ /\ Becomes(p, Fails([run[p] EXCEPT !.created = TRUE]))
          /\ UNCHANGED chan
    /\ UNCHANGED <<param, base, before, dirty>>

VdCreate(p) ==
    /\ run[p].pc = "create"
    /\ \/ /\ chan = None /\ chan' = p
          /\ Becomes(p, [run[p] EXCEPT !.created = TRUE, !.pc = "start"])
       \/ Fail(p) /\ UNCHANGED chan
    /\ UNCHANGED <<param, base, before, dirty>>

(* SET_CHN_PARAM and START_RECV_STREAM, then the frame loop (CodaCube). *)
VdStart(p) ==
    /\ run[p].pc = "start"
    /\ Goto(p, "loop") \/ Fail(p)
    /\ UNCHANGED <<param, chan, base, before, dirty>>

(* The loop ends: main() closes the channel first, then restores. *)
LoopEnds(p) ==
    /\ run[p].pc = "loop"
    /\ Becomes(p, [run[p] EXCEPT !.pc = "vdclose", !.i = 0])
    /\ UNCHANGED <<param, chan, base, before, dirty>>

-----------------------------------------------------------------------------
(* The two ends of a run, in either order: vd_close() and color_restore(). *)

Ends(p) == before' = [q \in Procs |-> before[q] \ {p}]

VdClose(p) ==
    LET r == [run[p] EXCEPT !.created = FALSE, !.dev = FALSE]
    IN  /\ run[p].pc = "vdclose"
        /\ chan' = IF run[p].created THEN None ELSE chan
        /\ IF run[p].dma /\ ~run[p].failed
           THEN Becomes(p, [r EXCEPT !.pc = "restore"]) /\ UNCHANGED before
           ELSE Becomes(p, Off) /\ Ends(p)
        /\ UNCHANGED <<param, base, dirty>>

(* A run that ends before one started after it puts back a value the later *)
(* one relies on.                                                          *)
Overtaken(p) == \E q \in Up : p \in before[q]

(* color_restore(): only what was saved; one parameter after the other. *)
ColorRestore(p) ==
    LET i == run[p].i
        done == i + 1 = NCOLOR
    IN  /\ run[p].pc = "restore"
        /\ param' = [param EXCEPT ![i] = IF run[p].saved[i] = "" THEN @ ELSE run[p].saved[i]]
        /\ dirty' = (dirty \/ Overtaken(p))
        /\ CASE ~done -> Becomes(p, [run[p] EXCEPT !.i = i + 1, !.saved[i] = ""]) /\ UNCHANGED before
             [] done /\ run[p].failed -> /\ Becomes(p, [run[p] EXCEPT !.pc = "vdclose", !.saved[i] = ""])
                                    /\ UNCHANGED before
             [] done /\ ~run[p].failed -> Becomes(p, Off) /\ Ends(p)
        /\ UNCHANGED <<chan, base>>

(* kill -9, a crash: no handler runs, the channel stays. *)
Killed(p) ==
    /\ run[p].pc # "off"
    /\ Becomes(p, Off) /\ Ends(p)
    /\ dirty' = TRUE
    /\ UNCHANGED <<param, chan, base>>

(* --destroy, "after a killed run": color_reset(), then vd_open_dev() and   *)
(* DESTROY_CHN; a device that does not open leaves the channel. Not while  *)
(* a run is up.                                                            *)
Destroy ==
    /\ Up = {}
    /\ param' = [i \in 0 .. NCOLOR - 1 |-> "auto"]
    /\ base' = param'
    /\ chan' \in {None, chan}
    /\ dirty' = (chan' # None)
    /\ UNCHANGED <<run, before>>

-----------------------------------------------------------------------------
Init ==
    /\ param \in [0 .. NCOLOR - 1 -> {"auto", "other"}]
    /\ chan = None
    /\ run = [p \in Procs |-> Off]
    /\ base = param /\ before = [p \in Procs |-> {}] /\ dirty = FALSE

Step(p) ==
    \/ ColorRead(p) \/ ColorWrite(p) \/ Prepare(p) \/ Window(p)
    \/ VdOpen(p) \/ VdCreate(p) \/ VdStart(p) \/ LoopEnds(p)
    \/ VdClose(p) \/ ColorRestore(p)

Next == Destroy \/ \E p \in Procs : Launch(p) \/ Step(p) \/ Killed(p)

-----------------------------------------------------------------------------
(* A run that believes it created the channel has it: no other run,        *)
(* refused or failing, ever destroys it, and once all runs ended by        *)
(* themselves no channel is left behind for --destroy to remove.           *)
ChannelOwned ==
    /\ \A p \in Procs : run[p].created => chan = p
    /\ Up = {} /\ ~dirty => chan = None

(* "The old values go back at exit": after any runs that ended by          *)
(* themselves, failed ones and ones refused while another was on screen    *)
(* included, the parameters are what they were; and they say COLOR_WANT    *)
(* while a --dmabuf or --zero-copy run is on screen. Runs whose setting    *)
(* and restoring cross are excepted: each only knows what it found.        *)
ColoursRestored ==
    ~dirty =>
        /\ Up = {} => param = base
        /\ \A p \in Procs : run[p].pc = "loop" /\ run[p].dma => param = [i \in 0 .. NCOLOR - 1 |-> "want"]

(* --user gives up root only after everything that needs it is open. *)
DropAfterOpens == \A p \in Procs : run[p].pc # "denied"
=============================================================================
