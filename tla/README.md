# BadgeOS: models, checks and proofs

BadgeOS is the NixOS system of the Nix Badge v2 (an SG2000 board with an eMMC,
an SD slot, a 1280x720 panel and a video decoder) and the firmware of the
badge v1. This directory holds TLA+ models of the parts of it that a power cut,
another thread or the display hardware can interrupt, the TLC runs that check
them on small instances, and TLAPS proofs of the main results for every
instance. Paths below are relative to `src/`; `B/` stands for
`src/pkgs/v2/by-name/`. `PROJECT.json` maps every definition to its lines.

## 1. The system

| component | state it keeps | operations | what makes it correct |
|---|---|---|---|
| eMMC layout, env, U-Boot (`B/nix-badge-emmc-update`, `B/nix-badge-emmc-init`, U-Boot's boot script) | partition table, `BOOT_ORDER`, `BOOT_x_LEFT`, two store slots, boot files on a FAT, `secure` marker, fip in boot area 1, USERDATA | boot attempts, `fw_setenv`, slot writes | U-Boot never picks a half-written slot |
| `nix-badge-emmc-update` | none of its own; writes the above | `--detect`, `write_slot` twice, fip, primary | one slot boots at every instant |
| `nix-badge-emmc-init` | as above | format, fip twice, env, BOOT, both slots, USERDATA | a cut leaves an eMMC that is either not an install or a good one |
| `nix-badge-install` | none | chooses between the two by `--detect` | a finished install is never re-formatted |
| RAUC, its bundle's `hook.sh`, `rauc-mark-good` | RAUC's slot status is the env | check, store, files, fip, primary, mark good | the old system stays to fall back to; one mode of fip and images |
| `nix-badge-install-bootloader` (a deploy) | `boot.itb`, `boot.itb.prev`, fip, the data card's FIT and mark | rename the FITs, write the fip | the slot stays whole |
| `nix-badge-stage0` | per slot: overlay upper, `/nix/var`, `.slot-stamp`; on a data card the same and `.nixbadge-lower*`, `.nixbadge-cardfit` | choose storage, factory reset, `card_state`, `slot_state`, `follow_fit`, `choose_init` | no Nix layer is mounted over another store than the one it was made on |
| `nix-badge-card-boot-reset`, `nix-badge-make-data-card` | the card's BOOT and reset list | drop the listed FITs; make a card | no stale kernel is booted from the card |
| `soph_ion` shim | buffers, their references, `ion_in_use`, dma-bufs, `cached_maps` | alloc, free, export, release, mmap, fork, SYNC brackets, load, unload | exact references and budget; reads in a bracket are not stale |
| `soph_drm` | shadowed display registers, `layer_*`, `vbl_*`, the armed event | page flip, modeset, disable, poll | the display reads only buffers it may; flips complete |
| `soph_drm`'s probe and starvation report | DSI host, bridge, link, modes; latched status flags | deferred probes; a sample a second | both drivers end bound; only this session's starvation is reported |
| `lt8912b-bringup` (bench display driver) | scroller work, mapped framebuffer, clock gate, DSI MAC, `g_disp_cfg` | bring-up, debugfs files, unbind | nothing paints freed memory; registers agree with each other |
| `badge_landscape_vo` (video player) | credits, generation, frames of VDEC and VO | feeder, pump, watchdog, main | one holder per frame; hangs and stops end |
| `nix-badge-video`, `btnwait` | the press being timed | sample, timeout, restart | one clip per press |
| `coda-cube`, `present-dmabuf` | decoder channel, frame buffers, maps, stream counters, colour parameters | frame loop, decode thread, set-up and tear-down | no shown frame is written; the badge is left as found; the stream is one a decoder reads |
| `sdhci-cv181x`, the aic8800 driver's enumeration | PHY tap, voltage switch, `rescan_entered`, WiFi power | tuning, resets, power, probe, rescan | no stale tap; a new card starts at 3.3 V; a lost rescan leaves the next one to find the WiFi card |
| `badge-kms-check` | framebuffers, colour properties | `reject`, `bars`, `flip`, `ion-reject` | finds each fault, leaves nothing |
| badge v1 firmware: cache proxy | one request per badge, its source | fetch, relay, re-parenting | requests end on the badges |
| badge v1 firmware: mesh game, LED tasks, ring buffer | cosmetic | | not modelled |
| `nix-badge` command and daemon (zig) | LED programs, output ownership | | not modelled |
| `dispsrc`, `badge-graphics-check` | none / vendor registers | | not modelled |
| small scripts (storage mode, grow userdata, cache gc, MAC, host name, network) | little or none | one-shot | |
| NixOS modules, image builds, signing, kernel and U-Boot patches | build time | | |

How they meet: the installers, RAUC and deploys share the eMMC with U-Boot and
with each other, ordered only by which medium is booted; stage 0 reads what the
installers and deploys left, at the next boot; the kernel drivers share buffers
(an ION buffer is exported as a dma-buf, imported as a DRM framebuffer and
scanned by the display while the decoder writes the next one).

What is hard here:

* **Power cuts.** The badge runs from a battery and has no orderly shutdown to
  rely on. Every installer and stage 0 is a sequence of commands, and every
  prefix of every sequence, followed by any other sequence, is a state some
  boot meets.
* **Long histories.** The state of a slot or of a data card is the result of
  many boots, deploys, resets and card swaps, in any order.
* **Two writers, one reader without locks.** The display hardware copies the
  shadow registers at a frame start between any two writes of the driver.
* **References over several locks.** An ION buffer's list, kref and budget are
  changed in different critical sections.
* **Buffers in many hands.** A decoder's frame is in turn the firmware's, a
  program's, the compositor's and the display's; releases, resets, late
  pictures, refused sends and stops fall between any two of these.
* **Long counters.** `coda-cube`'s stream never sends a second IDR, so its
  16-bit counters wrap.
* **Failures half-way.** The tools take several resources of the badge and must
  give back exactly what they took, whichever step failed.

The `hazards` list of `PROJECT.json` names each of these at its line with the
properties that would catch it going wrong.

## 2. Modules

| module | models | role |
|---|---|---|
| `EmmcState` | the eMMC's persistent state, U-Boot's choice of slot, boots, mark-good, power cuts | shared by the installers |
| `EmmcUpdate` | `emmc-update.sh`: `Detect` and one action per command of `write_slot`, fip, primary | an installer |
| `EmmcInit` | `emmc-init.sh`, one action per command from `sgdisk --zap-all` to `mkfs.ext4` | an installer |
| `RaucInstall` | RAUC with `hook.sh` and the manifest's order; a deploy | an installer |
| `BadgeBoot` | composes the four over a badge's life | the properties |
| `AbSlots` | the abstract A/B promise | refined by `BadgeBoot` |
| `BadgeBootProofs`, `Stage0Proofs`, `SophDrmProofs`, `LandscapeVoProofs` | TLAPS proofs about the module of that name | section 5 |
| `SophIonProofs`, `SophIonMmapProofs`, `CodaCubeProofs`, `DevicesProofs` | TLAPS proofs about `SophIon` in `MCVideo`, `SophIonMmap`, `CodaCube` and the rest of what `MCSophIonMmap`, `MCCoda` and `MCDevices` put side by side | section 5 |
| `Stage0` | `stage0.sh`, deploys, `card-boot-reset`, cards that come and go | many boots of one badge |
| `SophIon`, `SophIonParams` | allocation, free, export, close, module unload | threads of the kernel |
| `SophIonMmap` | user mappings and cache maintenance of one exported buffer | readers, CPU cache and device |
| `SophDrm` | page flips, modesets, polled vblank over shadowed registers | driver, poller and hardware |
| `SophProbe` | `soph_drm`'s deferred probe, the DSI host, the bridge's driver, the modes | two probes in threads of their own |
| `SophUnderrun` | the starvation report over latched flags | poller, enables, flips |
| `CodaCube` | `coda-cube`'s frame loop and decode thread, the presenter, sway | three owners of a frame |
| `CodaSession` | two runs of `coda-cube` around the channel and the colours | processes, kills |
| `CodaMaps` | exports, maps, SYNC brackets, dumb buffers, tear-down | every step may fail |
| `CodaStream` | frame numbers, order counts and references, against H.264's rules | an encoder and a decoder |
| `CodaNal` | `nal_wrap`, against what a decoder drops and keeps of a unit | an algorithm |
| `LandscapeVo` | `badge_landscape_vo`'s four threads | no locks between them |
| `Lt8912b`, `DispBringup` | `lt8912b-bringup`: files, work, unbinding; the registers of a bring-up | writers, a work item |
| `SdhciCv` | `sdhci-cv181x`'s operations | the core calls them in any order |
| `WifiEnum` | the WiFi host's probe, the MMC core's work, the AIC driver | three threads |
| `KmsCheck` | `badge-kms-check` against a driver with one fault | a test of tests |
| `BtnWait` | `btnwait` under `timeout`, with a bouncing button | samples and time |
| `CacheV1` | the v1 badges' cache proxy over the mesh | badges wait for badges |
| `MC*` | the constants of the TLC runs | section 3 |

### The boot chain (`EmmcState` ... `BadgeBoot`)

A store, a `boot.itb`, a `vbmeta.itb` or a fip is represented by the build its
bytes come from, or by `Torn` while `dd` writes it. `job` is the installer that
runs and its next command. A rename on the FAT after a `sync`, and a
`fw_setenv` into the redundant env, are atomic; a `dd` is two actions, so that
a cut can fall in it. `JobFails` is any command that fails under `set -e`;
`PowerCut` is possible in every state. `BootEmmc(FALSE)` is an attempt that
does not come up, whatever the reason. `Init` is a blank eMMC or one that an
earlier BadgeOS laid out with 2 GiB slots, which `--detect` answers with 4.

`installed` (an installer has run to its end since the last erase) and `trial`
(the slot a bundle just filled) are history variables: no guard reads them.

### Stage 0 (`Stage0`)

`at` is the boot: stage 0's position and decisions. `ud` and `card` are the
eMMC's USERDATA and the data card. A truncating redirection is two steps with
the file `Torn` in between; `rm -rf` of an upper layer removes its generations
in any order and may be cut after any of them; `mkdir` and `cp -a` leave `var`
as "part" in between. Mounts, `mkfs` and `cp` may fail. `made` is a history
variable: what lay under the layer a generation was deployed on (it also keeps
a generation from being deployed twice, which bounds the run). `found` is whether
stage 0's one look at the SD slot met the card in it, which it may not
(`stage0.sh:267-282`); only a card that was found is the one a factory reset
formats. The card starts freshly formatted or converted from a BadgeOS card,
whose own system's Nix state is still on it.

### ION (`SophIon`, `SophIonMmap`)

A thread is any context in a call. Each critical section of `ion_lock` is one
action, so the lock is no variable; what is done outside it
(`dma_alloc_coherent`, `kref_put`, `dma_free_coherent`, the export's later
steps) is an action of its own. Lengths are pages. `SophIonMmap` takes one
cache line of one buffer, since each line is filled, dropped and read by
itself; the CPU may fill the line through any cached mapping at any time, and
the device may write a new frame at any time.

### The display (`SophDrm`)

`shadow` and `working` are the two register banks. `FrameStart` copies one to
the other between any two steps of a commit unless the shadow mask is on, and
sets the raw status bit. A commit is the list of register writes the helpers
and the driver's callbacks do, in their order (disable, plane update, enable,
as `drm_atomic_helper_commit_tail` has it); `sclr_disp_set_mem` has two masked
windows, `sclr_disp_set_cfg` a third, `sclr_disp_set_layer` one. Linux runs on
one CPU, so the poller interrupts a commit between two steps and never under
`flip_lock`. At most `Oversample` polls fall in a frame. After a modeset the
bridge's enable takes many frames, so a frame has started when the commit is
done; `wait_for_vblanks` then turns the timer on. `vbl_div` 0 is kept as 1, as
`soph_vbl_fn` takes it. `steady` is a history variable: the generator has run
all along.

### coda-cube (`CodaCube`, `CodaSession`, `CodaMaps`, `CodaStream`, `CodaNal`)

The program is cut along what its parts share. `CodaCube` has the frame buffers
and three owners: the decoder (external) writes a picture into a free buffer
and queues it; the main thread and, with `--pipeline`, the worker get and
release it; sway (external) shows what was committed and releases it later. A
picture is its number in sending order, so a late or a stale one can be told.
`NPages` pictures are sent by the set-up; a signal and sway's death may come at
any step. `CodaSession` has what outlives a process: the channel and two colour
parameters, over two runs that may overlap, fail, be refused or be killed, and
`--destroy`. `CodaMaps` has descriptors, the kernel's allocations and where a
frame's planes lie in them; a read is through a map and inside a bracket or
not. `CodaStream` keeps the headers' fields per picture; the decoder's marking
of references and its expected `frame_num` are written from the H.264 rules
these headers use. `CodaNal` has one action per turn of `nal_wrap`'s loop with
a word of `WORD` bytes.

### The video player (`LandscapeVo`, `BtnWait`)

Each loop of a thread is cut at its calls of VDEC and VO and at its reads of
what another thread writes. `g_vdec_gen` is only ever compared with a sample,
so the model keeps whether each sample is still current. A decoder may hang
until it is reset, and forgets its frames at a reset. `BtnWait`'s tick is the
10 ms of a sample; the line is arbitrary for `BOUNCE` ticks after an edge.

### Drivers and tools (`SophProbe` ... `CacheV1`)

`SophProbe`: each driver's probe defers while the other's half is missing, and
the driver core retries when some driver binds. `SophUnderrun`: flags latch in
hardware between samples; `since` is what happened in this session, a history
variable. `SdhciCv` keeps of the PHY registers what they select together: the
DS/HS setting or a tap, and lets the core tune in any mode, as the driver does.
`Lt8912b` and `DispBringup` split the bench driver into its asynchronous parts
and the order of its register writes. `WifiEnum` cuts `cvi_sdio_rescan` between
`mmc_detect_change` and the clearing of `rescan_entered`, lets the host's probe
be deferred late and other hosts' probes clear `wifi_mmc`. `KmsCheck` runs each
command against a driver with no fault or one: one fault for each check that a
row of its table is there for. In `CacheV1` a badge looks at its mesh level
twice per request, as the code does, and the mesh may move a badge in between;
any chunk, the last and empty one too, may fail to get out, also on a
connection that stays open.

## 3. Runs

| run | property | what it says |
|---|---|---|
| `badge_boot` | `BootsWhole` | once installed, the slot U-Boot picks is one build's, whatever installs, failures and cuts came before |
| | `WritingSparesPick` | the slot being written is never the one that would boot |
| | `FallbackReady` | while a new bundle has not come up, the other slot is whole and has attempts left |
| | `KeepsAWayToBoot` | no step but a boot attempt takes the last bootable slot away |
| | `KeepsThePromise` | the badge implements `AbSlots` |
| | `SlotInv` | the inductive invariant of the proofs |
| `badge_boot_secure` | `FipServesPick` | the one fip is of the mode of the slot picked |
| `factory_fip` (violation) | `FactoryFallback` | see findings |
| `stage0` | `RunsOnMatchingLayer` | no generation or database runs over another squashfs, USERDATA or eMMC database than it was made on |
| | `CardSparesEmmc` | a factory reset of a boot that found the card is the card's, also when the card then cannot be used; with a card in use the eMMC's USERDATA is not written |
| | `ForeignCardKept` | no boot changes another badge's card |
| | `MarksOfThisUserdata` | on a card in use, U-Boot's marks are for FITs deployed over the eMMC's USERDATA as it is, whatever resets were cut short before |
| `stage0_torn_stamp` (violation) | `StateKept` | see findings |
| `soph_ion_mmap` | `BracketedReadsFresh`, `CacheInv` | a read in a SYNC bracket is no older than its START |
| | `RunsLeaveTheBadge` | `coda-cube`'s runs: the channel is its creator's (`ChannelOwned`), the colours go back (`ColoursRestored`), root is kept as long as needed (`DropAfterOpens`) |
| | `MapsRight` | `coda-cube`'s maps: descriptors are closed once and are its own (`FdsOwned`), frames are read in their memory and bracket (`ReadsBracketed`), sway imports the frame (`ShownIsFrame`) |
| | `ChecksHonest` | `badge-kms-check` exits 0 exactly when it should (`RejectFindsFaults`, `IonFindsFaults`, `FlipCounts`) and leaves the colours and no buffer through every failure (`ColoursBack`, `BuffersFreed`) |
| `video` | `BuffersOwned` | every buffer is with exactly one owner (`FramesAccounted`), what sway reads is not written (`SwayReadsStable`), an access unit is not rewritten while the worker sends it (`AuStable`) |
| | `FrameOrder` | pictures are presented in order, late ones dropped |
| | `StopExits` | while the decoder works, a signal ends the run wherever the main thread and the worker wait; with `--zero-copy` unless sway holds every buffer |
| | `StreamDecodes` | the references each picture names are there (`PagesKept`, `SmoothsTheRender`), counters follow the standard over their wraps (`FrameNumsFollow`, `PicturesAdvance`), a NAL unit reads back and has no start code inside (`ReadsBack`, `NoStartCode`) |
| | `HeldMemoryStays` | `soph_ion`: references are exactly the holders, and held memory is there |
| | `UsedBytesExact` | `ion_in_use` is what is allocated and counted |
| | `ExitLeavesNothing` | unloading leaves no memory and nothing that refers to it |
| | `Reclaimed` | freed and closed memory comes back |
| `landscape_vo` | `PlayerSafe` | a frame is in one hand (`OneHolder`), the channel goes last (`TeardownOrder`) |
| | `PlayerLive` | the watchdog gets a hung decoder going (`HangRecovers`), a stop ends the run unless the decoder hangs or has lost a buffer to a dropped frame (`StopEndsUnlessStuck`) |
| `landscape_vo_stop` (violation) | `CleanStop` | see findings |
| `devices` | `DisplayComesUp` | `soph_drm`'s probe: `CardComesUp`, `LinkLeftAlone`, `ModesMonotonic` |
| | `StarvationSound` | its starvation report: `StarvationReal`, `StarvationReported`, `ChromaReported` |
| | `SdHostsSound` | the SD hosts: `TapIsMedian`, `NoStaleTap`, `FreshCardAt3V3`; the WiFi card: `AbsentUntilPowered`, `NextRescanFinds` |
| | `BringupSound` | the bench driver's concurrent parts: `ScrollPaintsLive`, `StopHolds`, `DispSrcBalanced`, `MacRuns`; its registers: `LanesAgree`, `CfgHolds`, `PllExact` |
| | `ButtonSound` | the button: `OneClipPerPress`, `PressReported`, `ReportsLength` |
| | `CacheSound` | the v1 cache: `EveryRequestEnds` |
| `soph_drm` | `ReadsOnlyHeld` | the display reads the committed buffer, the one before it until its flip is done, or the driver's own |
| | `ScansOnePlaneState` | address, format, CSC and pitch that are scanned and seen belong to one plane state |
| | `FlipsComplete` | an armed flip completes |
| `soph_drm_stops` (violation) | `ReadsOnlyHeldAfterStops` | see findings |

A property with names in parentheses is their conjunction; each part is stated
in its component's module. `TypeOK` of the module that a run's MC module extends
is checked in it, in `BuffersOwned` and `PlayerSafe` as one more part; `SophIon`'s
is `IonTypes` in `MCVideo`.

Components that share nothing are checked side by side in one run: a variable
`which`, fixed by the initial state, says whose behaviour it is, and the others
stay in one initial state. Nothing is gained or lost by that against runs of
their own, and no interaction is claimed between them. These MC modules keep
the sizes as constants (`Procs`, `Allocs`, `Bases`; `Badges`, `Clients`, `At`,
`Tree`) that the `.cfg` gives their values, so that the theorems of section 5
are about any of them.

Bounds, and why they are enough:

* `badge_boot`: one core, two builds (the second too large for 2 GiB slots),
  two attempts instead of three. Slots are told apart only by whose build they
  hold, so two builds give "the same" and "another"; two attempts give "some
  left", "the last" and "none". `badge_boot_secure` has both cores and a plain
  and a signed build, for the order of the files and the modes.
* `stage0`: slot A, two root hashes, two generations, one USERDATA re-made. A
  slot's state is separate from the other's except for a card's reset of all
  slots; a run with both slots does not end in minutes. Two generations give
  one on the eMMC and one on the card. Each generation is deployed once and
  `MaxChanges` bounds the deploys and the new USERDATAs of a history to two
  together, so that a history is finite in these and unbounded in boots, cuts,
  card swaps and reinstalls. With `MaxChanges` 3, which allows both deploys and
  the reset, the same properties hold in 8.1 million states. Root hashes and
  generations are symmetric.
* `video`, `SophIon`: three threads (two racing and one more), two buffers of one or
  two pages, a budget of three, two dma-bufs with up to two file references.
* `soph_ion_mmap`: three mappings, so that one is forked while another is made
  and closed; two readers; three frames. Readers, and the runs of `CodaSession`,
  are symmetric.
* `CodaSession`: two runs, since what one run can spoil is one other's.
  `CodaMaps`: three allocations behind one another, the last as short as a
  chroma plane, so that planes lie in one map, in two, and inside an
  allocation. `KmsCheck`: two flips; allocations in four units of memory, so
  that neighbours touch; walks of two.
* `video`, `CodaCube`: two frame buffers, one dumb buffer, two access units a frame,
  three frames, two dry rounds instead of eight. Two buffers make the decoder
  run out when sway holds one. `CodaStream` counts modulo 64 instead of 65536
  for 80 frames, so every counter wraps, with one, three and five pages and
  zero and two spare frames. `CodaNal`: words of two bytes, payloads up to five
  bytes over {0, 1, 3, 4}: a word before, after and inside a run of zeros.
* `landscape_vo`: two frame buffers, one credit, one access unit in the
  decoder, a watchdog that waits two looks.
* `devices`: 4 of 8 lines active and 16 instead of 65536 for the fields'
  width; six taps with windows of at least two; two writers and two bring-ups;
  a long press of six ticks in a timeout of 14, bounces of two; three badges in
  a chain, two clients, one re-parenting.
* `soph_drm`: two RGB888 buffers of one pitch, an NV12 one with two CSCs, two
  GOP buffers; `Oversample` 2 instead of 4 (the fallback at twice that),
  `vbl_div` up to 2.

Deadlock is checked in every run but `soph_ion_mmap` and `devices`: there a
program has ended, or a count is at its bound, and nothing is left to do.

Fairness. `video`: in `SophIon` a call that has begun runs to its end (a kernel thread is
scheduled and holds no lock over a wait); no call is assumed to be made.
`soph_drm`: frames go on while the timing generator runs (it is free-running
hardware), the timer fires while it is started, and a commit runs to its end;
nothing is assumed of `TgenStop`, so `FlipsComplete` covers a generator that
never runs again. In `CodaCube` (`video`) the main thread and the worker are
scheduled, and a decoder with input and a free buffer decodes: SEND_STREAM waits
for it without a limit. Nothing is assumed of sway (the loop waits with a
timeout). `landscape_vo`: the four threads are scheduled and a
decoder that is not hung decodes; it may hang at any time. `devices`: a probe
that was started ends and a deferred one is retried, frames start, queued work
runs, and a v1 server that has something to do does it, its client's timeout
included; neither the upstream cache nor the mesh is assumed to do anything.

Every property of a passing run has a mutant: a plausible slip in the code it
is about (a dropped comparison, a wrong slot, a missing reset), under which TLC
finds the property violated. They stand beside the definitions as
`Mutant`.

## 4. Findings

Four violation runs show the code doing something else than a comment of it
says; `PROJECT.json` has the lines.

* `factory_fip`: a cut inside `emmc-init`'s second fip write over an earlier
  install leaves an eMMC that `--detect` calls installed. The update that
  follows writes offset 0 only, so the copy at +1 MiB, "the ROM's fallback if
  this write is torn", stays torn.
* `stage0_torn_stamp`: `.slot-stamp` is rewritten in place on every boot; a cut
  leaves it empty and the next boot removes a slot's generations though its
  root hash did not change.
* `soph_drm_stops`: `vbl_miss` survives a modeset. Misses counted while the
  generator was stopped make the fallback complete the first flip after the
  restart before its frame start. It takes a non-blocking modeset, with the
  flip following as soon as the modeset is done.
* `landscape_vo_stop`: `teardown` joins the watchdog before the feeder. When the
  decoder hangs under a feeder that is in `SendStream(-1)` and the player is
  stopped, nobody resets the channel any more and the join never returns, though
  the header and the usage call SIGTERM "a clean stop".

Six more such disagreements are reachable in the models; they have no run of
their own, and the hazards at these lines say so:

* `.nixbadge-lower` is rewritten in place like the stamp: after a cut the
  badge's own card is taken for another badge's (`stage0.sh:210`).
* A cut between a deploy's profile link and its FIT, or a card reset after
  U-Boot took the card's FIT, runs a userland on another generation's kernel
  (`install-bootloader.sh:94`).
* Two allocations pass ION's budget check before either is counted
  (`soph_ion_compat.c:142`).
* The player's pump drops a frame VDEC still tracks when a reset falls between
  its sample of the generation and its fetch; the buffer is out until the next
  reset (`badge_landscape_vo.c:825`, against its comment at 817-823).
* `card_reset_nix` removes a slot's `.nixbadge-lower` before its
  `.nixbadge-cardfit` (`stage0.sh:169-170`). After a cut between the two, when
  only that slot's squashfs or database had changed, the next boot finds nothing
  changed and leaves the mark and the stale FIT for good (against 161-165).
* Stage 0 looks for the data card once and waits three seconds for its
  partitions (`stage0.sh:267-282`); a factory reset at a boot that missed the
  card formats the eMMC's USERDATA (against 139-140).

Seen in the models and not claimed, since no line of the repository says
otherwise: after a cut of `emmc-init` over an earlier install, USERDATA may
never be formatted; a cut while `/nix/var` is seeded leaves a part that later
boots take for all of it; a slot reset by a torn stamp leaves the card's mark
for a FIT that is gone until `card_state` compares the databases; the WiFi
driver's one rescan is lost when its work runs before `rescan_entered` is
cleared, and the probe of another host may clear `wifi_mmc` between the two
(`sdhci-cv181x.c:386-388`, 1342); a tap found below 100 MHz or in the SD slot
goes with the next reset or `set_ios`; a v1 badge ends an answer as whole when a
chunk of it could not be sent or its source stopped in the middle
(`nixbadge_http.c:31`, 34); `/dev/badgefb` can be mapped after `remove` by who
had it open (`lt8912b-bringup.c:1550`); a decoder that hangs with its buffer full
holds `coda-cube` in SEND_STREAM through every signal (`coda-cube.c:2111`). Two
more are named at their definitions and not followed: `soph_drm` loaded again
after it was removed before its probe was done, and a lane count changed between
two reads of it in `do_bringup`.

## 5. Proofs

Each component whose safety matters most has a module of proofs beside it.
Thirty-two of the theorems state a property that a run checks, and four more
the safety part of one that also promises something; the runs look at a small
instance, the theorems hold for every value of the constants that the named
assumptions allow.

| module | for any | theorems |
|---|---|---|
| `BadgeBootProofs` | builds (finitely many or not), cores, number of attempts | `SlotsSafe`, `TypesKept`, `PickIsWhole`, `WriterSparesPick`, `PromiseKept`, `FallbackKept`, `AWayToBootKept`, `FipFitsPick` |
| `Stage0Proofs` | slots, squashfs images, generations, deploys and resets | `Stage0Safe`, `TypesKept`, `LayersMatch`, `MarksFollowUserdata`, `EmmcSpared`, `ForeignCardsKept` |
| `SophIonProofs` | threads, buffers, dma-bufs, lengths, budget | `TypesKept`, `ReferencesExact`, `UsedBytesCounted`, `NothingOutlivesTheModule` |
| `SophIonMmapProofs` | mappings, readers, frames; runs of `coda-cube`; allocations, planes, maps and descriptors; `--count`, hops, memory layouts | `CacheSafe`, `TypesKept`, `ReadsAreFresh`, `RunsLeaveTheBadgeThm`, `MapsRightThm`, `ChecksHonestThm` |
| `SophDrmProofs` | framebuffers, formats, poll rate, `vbl_div` | `DisplaySound`, `TypesKept`, `OnlyHeldIsRead`, `OnePlaneState` |
| `LandscapeVoProofs` | frame buffers, credits, watchdog limit, stream buffer | `PlayerSound`, `PlayerKeepsFrames` |
| `CodaCubeProofs` | frame buffers, dumb buffers, access units, length of a run; counter widths, pages, spare frames; payloads, word sizes | `CubeSound`, `FramesOwned`, `LineSound`, `FramesInOrder`, `StreamReadable` |
| `DevicesProofs` | writers, pixel clocks, button times, lines, taps | `BringupSoundThm`, `ButtonSoundThm`, `ProbesKeepTheLink`, `StarvationIsReal`, `WifiAbsentUntilPowered`, `SdHostsSafe` |

None of these properties is inductive; each module starts with the invariant
that is, and TLC checked that invariant on an instance before it was proved.
Below, what it adds and why the property needs it.

**The boot chain.** Assumptions: `ImagesAssumption` (the signed and the large
builds are builds, `Torn` and `NoFile` are not and differ), `CoresAssumption`
(one or both of arm and riscv), `TriesAssumption` (a positive number).
`BootsWhole` says nothing of a slot that has no attempts yet and will be made
primary by the installer that is writing it. `SlotInv` adds who may run
(`JobsRunWhereTheyMay`: an update from an SD boot only, a bundle on the slot
that is not booted), what an installer has written by the step it is at
(`SlotProgress`, `InitProgress`: while a slot is written its counter is 0; from
"files" on the store is the image and the old `.prev` is gone; at "primary"
nothing is left to do) and `BootableIsWhole`. Types need `SlotInv` too: a
deploy copies the booted slot's build into its files, and that is a build
because the slot is whole. For the refinement `PromiseKept` every step is shown
to retire slots (a counter goes to 0, the eMMC is erased) or to publish them (a
counter of an unbootable slot is set, an `emmc-init` ends) and never to change
the build of a bootable one. `FallbackReady` needs `TrialInv`: a bundle is put
on trial only by a boot marked good, whose slot has its attempts back, and only
a boot of that slot, which ends the trial, takes one. `FipServesPick` needs
`ModeInv`: the marker on BOOT is the mode of every bootable slot, of the fip
and, from the step it is compared at, of what is being installed.
`KeepsAWayToBoot` follows from `SlotInv` one action at a time.

**Stage 0.** Assumptions: `SlotsAssumption` (one slot or both),
`NamesAssumption` and `FilesAssumption` (an empty or torn file is none of the
values a whole one has), `BoundsAssumption`. `Stage0Inv` says that the card's
files tell the truth about its layers: a slot with a fingerprint has on the
card only what was deployed on that squashfs, USERDATA and eMMC database
(`CardInv`, and `CardGood` while the files are rewritten); a slot of a used card
without one has nothing there (`SeenInv`); and at each step of `card_state`, `slot_state`
and a reset, which of the files are `None`, whose, or already what the boot
will leave. `RunsOnMatchingLayer` is what this says at the step a layer is
mounted. It holds through every cut because the files are emptied before and
written after what they describe. `MarksOfThisUserdata` needs `MarksInv`: the
card's file names the USERDATA that its marks are for, and while the file and the
marks are rewritten, those that are done are this eMMC's.

**ION.** Assumptions: `IonAssumption` (lengths, budget and file references are
numbers; `Null` is no buffer), `HolderAssumption` (finitely many threads,
buffers and dma-bufs, and no holder of two kinds). `IonInv` adds to the counts
what a call in flight owns: between `dma_alloc_coherent` and the list, and
between the last put and the accounting, a buffer is one thread's alone
(`EndsInv`), and so is a dma-buf between its export and its fd (`CallsInv`). The
count of references is a cardinality, so each step is shown to add or to remove
one holder. `UsedBytesExact` is a sum, stated as the number of counted pages
(`CountedPages`), so that the lemma for a step is about one buffer's pages
coming or going.

**ION mappings.** Assumption: `MmapAssumption` (finitely many mappings).
`cached_maps` is the number of cached and counted mappings (`CountUp`,
`CountDown`), so a START that reads 0 skips the drop only when no cached
mapping can fill the line; a mapping that is made later drops the line after it
is counted and before it can be read through; hence inside a bracket the line
is no older than the START.

**coda-cube's runs.** Assumption: `SessionAssumption` (`None` is no run).
`SessionInv` says what a run has opened and saved by the step it is at
(`RunsInv`), that the channel is with the run that created it and never left
without one (`ChanInv`), and, while no runs crossed, that only the last one
started sets or restores a colour parameter and that what each run saved is what
the runs before it had made of it (`ColourInv`, over `OrderInv`).

**coda-cube's maps.** Assumption: `MapsAssumption` (allocations are not empty
and share no byte, planes are not empty, addresses are numbers). `MapsInv` ties
the tables of the program to the kernel's: every descriptor it will close is
open and its own (`OwnInv`, `DumbInv`, `ZcInv`) and every open one is remembered
(`NoLeak`), every map is a whole allocation and two share no byte (`MappedInv`),
a plane's pointer is behind the plane's memory (`PointerInv`), and the brackets
are those of the maps that are read (`SyncInv`).
Sharing no byte is what makes the allocation of an address one.

**badge-kms-check.** Assumption: `CheckAssumption` (counts and addresses are
numbers). `CheckInv` says at each step of each command what was counted of the
answers so far (`RejectInv`: every row the driver answers wrongly; `IonInv`: the
walk has as many allocations behind it as hops; `FlipInv`: shown and failed are
all the flips done) and which buffers and colours are out (`BufferInv`,
`PlaneInv`), so the exit status is the driver's and the way out gives back both.

**The display.** Assumption: `DrmAssumption` (the driver's parking buffer is
none of the framebuffers, the two layers' framebuffers differ, each has a way to
be scanned, the poll rate is positive). `DrmInv` ties the writes that are still
to come of a commit to what the shadow bank already holds, to what the working
bank can have latched of it and to the poller: the frame start that the poller
has not seen yet, or the one that a flip's write came after. The lists of
writes are finite and their suffixes are named (`V1`..., `G5`...), so that a
step is from one named list to the next. `ReadsOnlyHeld` and
`ScansOnePlaneState` are read off it.

**The player.** Assumption: `LandscapeAssumption` (finitely many buffers; the
limits are positive). `PlayerInv` adds which threads exist at each step of
`main` (`ThreadsInv`), where the pump holds a frame (`HandsInv`), and that a
buffer waits in the decoder's queue once and is nobody's (`QueueInv`).

**coda-cube.** Assumption: `CodaAssumption` (finitely many buffers, fewer than
`MAX_HELD`; a dumb buffer is no frame buffer; at most three access units).
`CubeInv` says which pairs of steps the main thread and the worker can be at
(`LoopInv`), who holds each buffer the decoder has handed out (`HoldInv`), what
sway reads and has given back but the program has not heard of (`SwayInv`) and
which access unit is being sent (`SendInv`). The lemmas on queues without
repetition are stated once; they give `FramesAccounted` its counts, and that a
dispatch of any set of releases never overruns the release queue, since that
has room for more buffers than there are.

`FrameOrder` needs the numbers of all pictures that are still in the decoder.
`OrderInv` says that they are sorted, at most `NAU` to a number and below the
next frame's (`LineInv`), and counts (`FetchInv`): a frame ends well only after
it took as many pictures off the line as it sent, so what it ends with is newer
than what the frame before it ended with, however many late ones were in front.
A frame is one access unit, or up to three with `--smooth`.

**The stream.** Assumption: `StreamAssumption` (the counters are wide enough for
the set-up, four renders and twice the references: 65536 is). `StreamInv` gives
the last reference's `frame_num` and order count as a function of the frame
counter and of the place in the frame (`RefInv`), the short-term references as a
window of consecutive numbers behind it, round the wrap, and says of the picture
just sent what the standard asks (`PictureInv`). The pages are long-term and no
step of the loop unmarks one.

**The NAL writer.** Assumption: `NalAssumption` (bytes are numbers). Reading
back is stated by positions: which bytes of a unit a decoder drops is decided by
the two before each, so what the loop has written of the payload is an invariant
of its turns (`NalInv`: the unit holds the first `nI - 1` bytes, and the count
of zeros says how it ends), and no induction over the payload is needed.

**The bench driver.** Assumption: `PixClocksAssumption` (13.021 to 208.333 MHz,
the PLL's reach on two and on four lanes). `BridgeInv` says that `g` is published exactly
while the driver is bound and not leaving, and that the scroller's work runs
only over a live framebuffer and only while it is on or somebody waits in its
cancelling; `DispInv` what each step of `do_bringup` has set by then.

**The button.** Assumption: `ButtonAssumption` (the contacts settle within the
debouncing). `ButtonInv` ties `prev`, `pressed_at` and the last sample to the
finger: the line is quiet once it has settled, so a press that `btnwait` times
began where its contacts first closed.

**Probes, starvation, SD hosts, WiFi.** Assumption: `LineAssumption` (three
pixels of blanking in a line). `ProbeInv`: a bridge is bound only with a host,
and the probe that left its host behind does not run again; `FillOrdered` is the
arithmetic of `soph_fill_mode` for every wrap of the sync. `StarveInv`: a
session whose flags were cleaned has up only what came in it. `SdhciInv`: the
slot's pads and voltage follow its power, and the delay line holds the last
tuning's tap or nothing.
`WifiInv`: before the AIC driver moves the line, no scan finds a card.

Leaves about sequences are kept to few facts and no records: the prover's SMT
encoding of `Len` is too liberal about functions that are no sequences, and a
leaf that mixes both could be closed by it. Every leaf that mentions `Len` was
also closed with that axiom restricted.

Model-checked only, and why:

* liveness under fairness, which with `ENABLED` is out of the prover's reach:
  `Reclaimed`, `FlipsComplete`, `StopExits`, `PlayerLive` (`HangRecovers`,
  `StopEndsUnlessStuck`) and the parts `CardComesUp`, `StarvationReported`,
  `ChromaReported`, `NextRescanFinds` and `EveryRequestEnds` of the `devices`
  run;
* `TapIsMedian` (in `SdHostsSound`): what a scan over the taps computes for any
  number of them takes induction over that data.

## 6. Not modelled

Boot chain: the env mirror (a copy U-Boot does not choose a slot by), extlinux
leftovers, free-space checks on the FAT, `.new` temporaries, a `BOOT_ORDER`
with one slot, the refusal to install from an SD with a deployed `boot.itb`,
RAUC's pre-install refusal with a data card in use, the hook's branch for a
board without an eMMC, the fuse dialogue. Stage 0: the single-slot migration,
the tmpfs fallback, boot profiles, specialisations and the overlays of `/etc`,
`/var`, `/home` and `/root`, a card without BOOT. ION: a DMA-coherent device,
which the code itself names as a gap. Display: the alpha fill, debugfs dumps.
`coda-cube`: the cube's geometry, edge finding and macroblock coding (pure
computation on pixels, whose reference would be a decoder), measurements,
`--dump-atlas` and `--dump-tex`. `badge_landscape_vo`: splitting the clip into access units,
pacing, overlay text, statistics. `lt8912b-bringup`: I2C bit-banging, the
bridge's register tables, and two bring-ups at once, which no lock of the driver
keeps apart and whose register writes would interleave. `sdhci-cv181x`: pinmux tables, debug dumps; `sdhci.h`
is the kernel's. `CodaSession`'s colours leave out runs that cross, which no
line speaks of. `dispsrc` writes a vendor register bank whose latching is
documented nowhere: a model would have to guess it. `nix-badge` (zig), the v1
mesh game, LED tasks and the ring buffer keep cosmetic state; the demos are
graphics. The rest is listed in `PROJECT.json` with its reason.

## 7. Plan

Modules that would come next: the `nix-badge` daemon's output ownership and
requests; the v1 mesh messages and ring buffer; `grow-userdata`, the env mirror
and the storage mode scripts.

Abstract specifications worth stating: a store that is atomic per deploy above
`Stage0`; a double buffer above `SophDrm`; a frame queue above `CodaCube`.

Next proofs: the three abstract specifications above as refinements.
