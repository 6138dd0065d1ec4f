---------------------------- MODULE RendererInputs ----------------------------
(***************************************************************************)
(* What the hidden renderer games are fed (renderer.rs): sources push      *)
(* samples, anchors and taps; a 60 Hz task, write_aligned_inputs, maps     *)
(* them onto one shared presentation clock and writes one input page per   *)
(* slot; the controls of the host start runs and relaunch or stop slots.   *)
(* Every buffer has a lock of its own, and a control takes them one after  *)
(* the other, so a pass of the writer can fall between any two of them.    *)
(*                                                                         *)
(* Time is counted in samples: a source emits sample i at time i, its beat *)
(* is i, and it carries the raw tap flag when i is a tap's beat.           *)
(***************************************************************************)
EXTENDS Integers, FiniteSets, FiniteSetsExt

CONSTANTS
    Slot, Participant, Nobody,
    Taps,       \* beats of the taps the sources make
    FirstNote,  \* the chart's first scoring note
    Delay,      \* the common delay of the slots
    Jitter,     \* how late a sample can arrive
    Tolerance,  \* 0.05 beat: how far a sample may be past a tap it judges
    MaxNow, MaxRuns,
    MaxControls \* calls of configure, launch and stop

ASSUME NobodyAssumption == Nobody \notin Participant
ASSUME TimeAssumption ==
    /\ {FirstNote, Delay, Jitter, Tolerance, MaxNow, MaxRuns, MaxControls} \subseteq Nat
    /\ FirstNote > 0 /\ Taps \subseteq 1 .. MaxNow

VARIABLES
    now, racing,
    slots,      \* participant_id of each slot, Nobody when it is inactive
    samples,    \* render_samples
    anchors,    \* render_anchors, with the sample each was resolved to
    taps,       \* render_taps, the reliable edges
    source, tapCursor, sampleCursor,    \* input_sources and the cursors
    awaiting,   \* awaiting_run_start
    epoch,      \* sync_epoch
    page,       \* the input map each child reads
    writer,     \* the pass of write_aligned_inputs in progress
    op,         \* the control in progress, and how many were called
    run,        \* history: runs begun
    parked,     \* history: slots whose child waits for begin_run and whose
                \* barrier no writer pass in progress had missed
    judged,     \* history: how often a slot's child was told of a tap
    seeds,      \* history: how often its paddle was seeded in this run
    tardy,      \* history: taps whose edge came after a child was told of them
    rebuilt     \* history: the epoch was reset after its release in this run

bufferVars == <<samples, anchors, taps>>
cursorVars == <<source, tapCursor, sampleCursor>>
records == <<run, parked, judged, seeds, tardy, rebuilt>>
inputsVars == <<now, racing, slots, bufferVars, cursorVars, awaiting, epoch, page, writer, op,
                records>>

Time == 0 .. MaxNow
Sample == [index : 1 .. MaxNow, receipt : Time, run : 0 .. MaxRuns]
Input == [run : 0 .. MaxRuns, beat : 0 .. MaxNow, capture : BOOLEAN]
Epoch == [cohort : SUBSET Participant, at : Nat, released : BOOLEAN]
Zero == [run |-> 0, beat |-> 0, capture |-> FALSE]
NoEpoch == [cohort |-> {}, at |-> 0, released |-> FALSE]
NoAnchor == [set |-> FALSE, source |-> 0, receipt |-> 0]
NewAnchor == [NoAnchor EXCEPT !.set = TRUE]
WriterPc == {"sleeping", "gated", "viewing", "warming", "releasing"}
OpPc == {"idle", "begin_samples", "begin_anchors", "begin_cursors", "begin_pages", "begin_epoch",
         "assign", "launch", "reset", "stop", "drop"}
Sleeping == [pc |-> "sleeping", gate |-> {}, view |-> [s \in Slot |-> Nobody],
             time |-> 0, at |-> 0, first |-> FALSE]
NoOp == [pc |-> "idle", slot |-> Nobody, who |-> Nobody, calls |-> 0]
Call(pc, s, who) ==
    /\ op.pc = "idle" /\ op.calls < MaxControls
    /\ op' = [pc |-> pc, slot |-> s, who |-> who, calls |-> op.calls + 1]
Return == op' = [NoOp EXCEPT !.calls = op.calls]

Untapped == [t \in Taps |-> 0]
InputsInit ==
    /\ now = 0 /\ racing = FALSE
    /\ slots = [s \in Slot |-> Nobody]
    /\ samples = [p \in Participant |-> {}]
    /\ anchors = [p \in Participant |-> NoAnchor]
    /\ taps = [p \in Participant |-> {}]
    /\ source = [s \in Slot |-> Nobody]
    /\ tapCursor = [s \in Slot |-> 0] /\ sampleCursor = [s \in Slot |-> 0]
    /\ awaiting = {} /\ epoch = NoEpoch /\ page = [s \in Slot |-> Zero]
    /\ writer = Sleeping /\ op = NoOp
    /\ run = 0 /\ parked = {} /\ judged = [s \in Slot |-> Untapped]
    /\ seeds = [s \in Slot |-> 0] /\ tardy = {} /\ rebuilt = FALSE

-----------------------------------------------------------------------------
(* The sources.  The writer holds the buffers from the moment it resolves  *)
(* the anchors to the end of its pass.                                     *)

Beginning == op.pc \in {"begin_samples", "begin_anchors", "begin_cursors", "begin_pages", "begin_epoch"}
BuffersFree == writer.pc \notin {"warming", "releasing"}

Advance ==
    /\ now < MaxNow /\ ~Beginning
    /\ now' = now + 1
    /\ UNCHANGED <<racing, slots, bufferVars, cursorVars, awaiting, epoch, page, writer, op, records>>

(* A datagram arrives; it can be late, and one that is out of order is     *)
(* dropped.                                                                *)
PushSample(p, i) ==
    /\ BuffersFree /\ i \in now - Jitter .. now /\ i > 0
    /\ \A q \in samples[p] : q.index < i
    /\ samples' = [samples EXCEPT ![p] = @ \cup {[index |-> i, receipt |-> now, run |-> run]}]
    /\ UNCHANGED <<now, racing, slots, anchors, taps, cursorVars, awaiting, epoch, page, writer, op,
                   records>>

(* The source sends its anchor once per run, when it reaches the first     *)
(* note.  Whoever sends it, the epoch of the cohort in progress is reset.  *)
ResetEpoch ==
    /\ epoch' = NoEpoch
    /\ rebuilt' = (rebuilt \/ epoch.released \/ writer.pc = "releasing")

PushAnchor(p) ==
    /\ BuffersFree /\ racing /\ now >= FirstNote /\ ~anchors[p].set
    /\ anchors' = [anchors EXCEPT ![p] = NewAnchor]
    /\ ResetEpoch
    /\ UNCHANGED <<now, racing, slots, samples, taps, cursorVars, awaiting, page, writer, op,
                   run, parked, judged, seeds, tardy>>

(* The reliable edge of a tap; the stream delivers them in order.          *)
PushTap(p, t) ==
    /\ t <= now /\ \A u \in taps[p] : u < t
    /\ taps' = [taps EXCEPT ![p] = @ \cup {t}]
    /\ tardy' = IF \E s \in Slot : source[s] = p /\ judged[s][t] > 0 THEN tardy \cup {t} ELSE tardy
    /\ UNCHANGED <<now, racing, slots, samples, anchors, cursorVars, awaiting, epoch, page, writer, op,
                   run, parked, judged, seeds, rebuilt>>

-----------------------------------------------------------------------------
(* write_aligned_inputs *)

CloneBarrier ==
    /\ writer.pc = "sleeping"
    /\ writer' = [writer EXCEPT !.pc = "gated", !.gate = awaiting]
    /\ UNCHANGED <<now, racing, slots, bufferVars, cursorVars, awaiting, epoch, page, op, records>>

(* The slots it will write: active, and not behind the barrier it cloned.  *)
Fed(gate) == [s \in Slot |-> IF s \in gate THEN Nobody ELSE slots[s]]
CohortOf(view) == {view[s] : s \in Slot} \ {Nobody}

ViewSlots ==
    /\ writer.pc = "gated"
    /\ writer' = IF CohortOf(Fed(writer.gate)) = {} THEN Sleeping
                 ELSE [writer EXCEPT !.pc = "viewing", !.view = Fed(writer.gate), !.time = now]
    /\ UNCHANGED <<now, racing, slots, bufferVars, cursorVars, awaiting, epoch, page, op, records>>

Resolved(p) == anchors[p].set /\ anchors[p].source > 0
FromFirstNote(p) == {q \in samples[p] : q.index >= FirstNote}
Earliest(set) == CHOOSE q \in set : \A r \in set : q.index <= r.index
Latest(set) == CHOOSE q \in set : \A r \in set : r.index <= q.index
Resolve(p) ==
    IF anchors[p].set /\ ~Resolved(p) /\ FromFirstNote(p) # {}
    THEN LET q == Earliest(FromFirstNote(p))
         IN  [set |-> TRUE, source |-> q.index, receipt |-> q.receipt]
    ELSE anchors[p]

(* The cohort is released when every participant it shows has reached the  *)
(* first note, one delay after the last of them did.                       *)
(* Mutant of NextEpoch: the cohort is released with no delay to fill.      *)
NextEpochAtOnce(cohort, resolved) ==
    IF epoch.cohort # cohort /\ \A p \in cohort : resolved[p].source > 0
    THEN [cohort |-> cohort, released |-> FALSE, at |-> Max({resolved[p].receipt : p \in cohort})]
    ELSE epoch

NextEpoch(cohort, resolved) ==
    LET kept == IF epoch.cohort = cohort THEN epoch ELSE NoEpoch
    IN  IF kept = NoEpoch /\ \A p \in cohort : resolved[p].source > 0
        THEN [cohort |-> cohort, released |-> FALSE,
              at |-> Max({resolved[p].receipt : p \in cohort}) + Delay]
        ELSE kept

HoldBuffers ==
    /\ writer.pc = "viewing"
    /\ LET cohort == CohortOf(writer.view)
       IN  /\ anchors' = [p \in Participant |-> IF p \in cohort THEN Resolve(p) ELSE anchors[p]]
           /\ epoch' = NextEpoch(cohort, anchors')
    /\ writer' = [writer EXCEPT
                    !.pc = IF epoch' = NoEpoch \/ writer.time < epoch'.at
                           THEN "warming" ELSE "releasing",
                    !.at = epoch'.at, !.first = ~epoch'.released]
    /\ rebuilt' = (rebuilt \/ (epoch.released /\ epoch.cohort # CohortOf(writer.view)))
    /\ UNCHANGED <<now, racing, slots, samples, taps, cursorVars, awaiting, page, op,
                   run, parked, judged, seeds, tardy>>

(* Before the release the children follow the delayed pre-roll, unseen.    *)
Warmed(p) == {q \in samples[p] : q.receipt + Delay <= writer.time}
Warms(s) == writer.view[s] # Nobody /\ Warmed(writer.view[s]) # {}
WriteWarmup ==
    /\ writer.pc = "warming"
    /\ page' = [s \in Slot |->
                 IF Warms(s)
                 THEN LET q == Latest(Warmed(writer.view[s]))
                      IN  [run |-> q.run, beat |-> q.index, capture |-> FALSE]
                 ELSE page[s]]
    /\ source' = [s \in Slot |-> IF Warms(s) THEN writer.view[s] ELSE source[s]]
    /\ writer' = Sleeping
    /\ UNCHANGED <<now, racing, slots, bufferVars, tapCursor, sampleCursor, awaiting, epoch, op, records>>

(* From the release on, a slot shows the sample as far past its source's   *)
(* anchor as the clock is past the release.                                *)
Target(p) == anchors[p].source + (writer.time - writer.at)
Presented(p) == {q \in samples[p] : q.index <= Target(p)}
Shows(s) ==
    LET p == writer.view[s] IN p # Nobody /\ Resolved(p) /\ Presented(p) # {}
Shown(s) == Latest(Presented(writer.view[s]))
SourceChanged(s) == source[s] # writer.view[s]
Baseline(s) ==
    LET old == {t \in taps[writer.view[s]] : t + Tolerance < Shown(s).index}
    IN  IF old = {} THEN 0 ELSE Max(old)
TapStart(s) == IF SourceChanged(s) THEN Baseline(s) ELSE tapCursor[s]
Passed(s) == {t \in taps[writer.view[s]] : TapStart(s) < t /\ t <= Shown(s).index}
Due(s) == {t \in Passed(s) : t + Tolerance >= Shown(s).index}

(* Mutant of NewSample: a repeated sample shows its raw tap again.         *)
RepeatedSample(s) == TRUE

NewSample(s) == SourceChanged(s) \/ sampleCursor[s] # Shown(s).index
RawTap(s) == Due(s) = {} /\ NewSample(s) /\ Shown(s).index \in Taps

(* The tap a pass tells the child of, 0 for none: the oldest reliable edge *)
(* it has not consumed, else the raw flag of a sample it has not shown.    *)
TapOf(s) == IF Due(s) # {} THEN Min(Due(s)) ELSE IF RawTap(s) THEN Shown(s).index ELSE 0
CursorAfter(s) == IF Due(s) # {} THEN Min(Due(s)) ELSE Max(Passed(s) \cup {TapStart(s)})

(* The first pass marks the epoch it released, unless it was reset.        *)
(* Mutant of MarkReleased: every pass is a first release.                  *)
MarkReleasedNever == epoch

MarkReleased ==
    IF epoch # NoEpoch /\ epoch.at = writer.at THEN [epoch EXCEPT !.released = TRUE] ELSE epoch

WriteRelease ==
    /\ writer.pc = "releasing"
    /\ LET shows == {s \in Slot : Shows(s)}
           told(s) == IF SourceChanged(s) THEN Untapped ELSE judged[s]
           seeded(s) == IF SourceChanged(s) THEN 0 ELSE seeds[s]
       IN  /\ page' = [s \in Slot |->
                        IF s \in shows
                        THEN [run |-> Shown(s).run, capture |-> TRUE,
                              beat |-> IF writer.first THEN FirstNote ELSE Shown(s).index]
                        ELSE page[s]]
           /\ source' = [s \in Slot |-> IF s \in shows THEN writer.view[s] ELSE source[s]]
           /\ tapCursor' = [s \in Slot |-> IF s \in shows THEN CursorAfter(s) ELSE tapCursor[s]]
           /\ sampleCursor' = [s \in Slot |-> IF s \in shows THEN Shown(s).index ELSE sampleCursor[s]]
           /\ judged' = [s \in Slot |->
                          IF s \notin shows THEN judged[s]
                          ELSE [t \in Taps |-> IF TapOf(s) = t /\ told(s)[t] < 2
                                               THEN told(s)[t] + 1 ELSE told(s)[t]]]
           /\ seeds' = [s \in Slot |->
                         IF s \in shows /\ (writer.first \/ SourceChanged(s)) /\ seeded(s) < 2
                         THEN seeded(s) + 1 ELSE seeds[s]]
    /\ epoch' = MarkReleased
    /\ writer' = Sleeping
    /\ UNCHANGED <<now, racing, slots, bufferVars, awaiting, op, run, parked, tardy, rebuilt>>

-----------------------------------------------------------------------------
(* The controls, one at a time *)

(* begin_run, called when the start is scheduled; the players learn of the *)
(* start when it has returned.                                             *)
BeginRun ==
    /\ op.pc = "idle" /\ ~racing /\ run < MaxRuns
    /\ op' = [op EXCEPT !.pc = "begin_samples"]
    /\ UNCHANGED <<now, racing, slots, bufferVars, cursorVars, awaiting, epoch, page, writer, records>>

(* Mutant of DropSamples: the buffers keep what the last run left.         *)
DropSamplesNot ==
    /\ op.pc = "begin_samples" /\ BuffersFree
    /\ run' = run + 1
    /\ op' = [op EXCEPT !.pc = "begin_anchors"]
    /\ UNCHANGED <<now, racing, slots, bufferVars, cursorVars, awaiting, epoch, page, writer,
                   parked, judged, seeds, tardy, rebuilt>>

DropSamples ==
    /\ op.pc = "begin_samples" /\ BuffersFree
    /\ samples' = [p \in Participant |-> {}] /\ run' = run + 1
    /\ op' = [op EXCEPT !.pc = "begin_anchors"]
    /\ UNCHANGED <<now, racing, slots, anchors, taps, cursorVars, awaiting, epoch, page, writer,
                   parked, judged, seeds, tardy, rebuilt>>

DropAnchors ==
    /\ op.pc = "begin_anchors" /\ BuffersFree
    /\ anchors' = [p \in Participant |-> NoAnchor] /\ taps' = [p \in Participant |-> {}]
    /\ op' = [op EXCEPT !.pc = "begin_cursors"]
    /\ UNCHANGED <<now, racing, slots, samples, cursorVars, awaiting, epoch, page, writer, records>>

OpenBarrier ==
    /\ op.pc = "begin_cursors"
    /\ source' = [s \in Slot |-> Nobody]
    /\ tapCursor' = [s \in Slot |-> 0] /\ sampleCursor' = [s \in Slot |-> 0]
    /\ awaiting' = {} /\ parked' = {}
    /\ op' = [op EXCEPT !.pc = "begin_pages"]
    /\ UNCHANGED <<now, racing, slots, bufferVars, epoch, page, writer, run, judged, seeds, tardy, rebuilt>>

ZeroPages ==
    /\ op.pc = "begin_pages"
    /\ page' = [s \in Slot |-> Zero]
    /\ op' = [op EXCEPT !.pc = "begin_epoch"]
    /\ UNCHANGED <<now, racing, slots, bufferVars, cursorVars, awaiting, epoch, writer, records>>

DropEpoch ==
    /\ op.pc = "begin_epoch"
    /\ epoch' = NoEpoch /\ Return /\ racing' = TRUE
    /\ judged' = [s \in Slot |-> Untapped] /\ seeds' = [s \in Slot |-> 0]
    /\ tardy' = {} /\ rebuilt' = FALSE
    /\ UNCHANGED <<now, slots, bufferVars, cursorVars, awaiting, page, writer, run, parked>>

EndRun ==
    /\ op.pc = "idle" /\ racing
    /\ racing' = FALSE
    /\ UNCHANGED <<now, slots, bufferVars, cursorVars, awaiting, epoch, page, writer, op, records>>

(* configure: the cursors and the epoch, then the page, then the slot; the *)
(* controls refuse it during a run.                                        *)
ForgetSlot(s) ==
    /\ source' = [source EXCEPT ![s] = Nobody]
    /\ tapCursor' = [tapCursor EXCEPT ![s] = 0]
    /\ sampleCursor' = [sampleCursor EXCEPT ![s] = 0]

Configure(s, p) ==
    /\ Call("assign", s, p) /\ ~racing /\ slots[s] # p
    /\ ForgetSlot(s) /\ ResetEpoch
    /\ UNCHANGED <<now, racing, slots, bufferVars, awaiting, page, writer,
                   run, parked, judged, seeds, tardy>>

Assign ==
    /\ op.pc = "assign"
    /\ page' = [page EXCEPT ![op.slot] = Zero]
    /\ slots' = [slots EXCEPT ![op.slot] = op.who]
    /\ \/ op' = [op EXCEPT !.pc = "launch"]
       \/ Return
    /\ UNCHANGED <<now, racing, bufferVars, cursorVars, awaiting, epoch, writer, records>>

(* launch_slot: the barrier closes before the page is zeroed and the child *)
(* starts.                                                                 *)
Relaunch(s) ==
    /\ Call("launch", s, Nobody) /\ ~racing /\ slots[s] # Nobody
    /\ UNCHANGED <<now, racing, slots, bufferVars, cursorVars, awaiting, epoch, page, writer, records>>

Missed(s) == writer.pc # "sleeping" /\ s \notin writer.gate

(* Mutant of CloseBarrier: the slot is not put behind the barrier.         *)
CloseBarrierNot ==
    /\ op.pc = "launch"
    /\ op' = [op EXCEPT !.pc = "reset"]
    /\ UNCHANGED <<now, racing, slots, bufferVars, cursorVars, awaiting, epoch, page, writer, records>>

CloseBarrier ==
    /\ op.pc = "launch"
    /\ awaiting' = awaiting \cup {op.slot}
    /\ op' = [op EXCEPT !.pc = "reset"]
    /\ parked' = IF Missed(op.slot) THEN parked \ {op.slot} ELSE parked
    /\ UNCHANGED <<now, racing, slots, bufferVars, cursorVars, epoch, page, writer,
                   run, judged, seeds, tardy, rebuilt>>

StartChild ==
    /\ op.pc = "reset"
    /\ page' = [page EXCEPT ![op.slot] = Zero]
    /\ parked' = IF Missed(op.slot) THEN parked ELSE parked \cup {op.slot}
    /\ Return
    /\ UNCHANGED <<now, racing, slots, bufferVars, cursorVars, awaiting, epoch, writer,
                   run, judged, seeds, tardy, rebuilt>>

(* stop_participant: stop_slot for every slot that follows the             *)
(* participant, then its buffers; stop_renderer_slot stops the one slot.   *)
StopSlot(s, who) ==
    /\ Call("stop", s, who) /\ slots[s] # Nobody /\ who \in {slots[s], Nobody}
    /\ slots' = [slots EXCEPT ![s] = Nobody]
    /\ parked' = parked \ {s}
    /\ UNCHANGED <<now, racing, bufferVars, cursorVars, awaiting, epoch, page, writer,
                   run, judged, seeds, tardy, rebuilt>>

ForgetStopped ==
    /\ op.pc = "stop"
    /\ ForgetSlot(op.slot) /\ ResetEpoch
    /\ awaiting' = awaiting \ {op.slot}
    /\ IF \E s \in Slot : op.who # Nobody /\ slots[s] = op.who
       THEN LET s == CHOOSE s \in Slot : slots[s] = op.who
            IN  /\ slots' = [slots EXCEPT ![s] = Nobody] /\ parked' = parked \ {s}
                /\ op' = [op EXCEPT !.slot = s]
       ELSE /\ IF op.who = Nobody THEN Return ELSE op' = [op EXCEPT !.pc = "drop"]
            /\ UNCHANGED <<slots, parked>>
    /\ UNCHANGED <<now, racing, bufferVars, page, writer, run, judged, seeds, tardy>>

DropBuffers ==
    /\ op.pc = "drop" /\ BuffersFree
    /\ samples' = [samples EXCEPT ![op.who] = {}]
    /\ anchors' = [anchors EXCEPT ![op.who] = NoAnchor]
    /\ taps' = [taps EXCEPT ![op.who] = {}]
    /\ Return
    /\ UNCHANGED <<now, racing, slots, cursorVars, awaiting, epoch, page, writer, records>>

-----------------------------------------------------------------------------
Sources ==
    \/ Advance
    \/ \E p \in Participant :
          \/ \E i \in 1 .. MaxNow : PushSample(p, i)
          \/ PushAnchor(p)
          \/ \E t \in Taps : PushTap(p, t)
Writer == CloneBarrier \/ ViewSlots \/ HoldBuffers \/ WriteWarmup \/ WriteRelease
Controls ==
    \/ BeginRun \/ DropSamples \/ DropAnchors \/ OpenBarrier \/ ZeroPages \/ DropEpoch \/ EndRun
    \/ \E s \in Slot, p \in Participant : Configure(s, p)
    \/ \E s \in Slot : Relaunch(s)
    \/ \E s \in Slot, who \in Participant \cup {Nobody} : StopSlot(s, who)
    \/ Assign \/ CloseBarrier \/ StartChild \/ ForgetStopped \/ DropBuffers

InputsNext == Sources \/ Writer \/ Controls
InputsSpec == InputsInit /\ [][InputsNext]_inputsVars

-----------------------------------------------------------------------------
InputsTypeOK ==
    /\ now \in Time /\ racing \in BOOLEAN
    /\ slots \in [Slot -> Participant \cup {Nobody}]
    /\ samples \in [Participant -> SUBSET Sample]
    /\ taps \in [Participant -> SUBSET Taps]
    /\ source \in [Slot -> Participant \cup {Nobody}]
    /\ tapCursor \in [Slot -> Time] /\ sampleCursor \in [Slot -> Time]
    /\ epoch \in Epoch
    /\ epoch # NoEpoch => epoch.at \in FirstNote + Delay .. MaxNow + Delay
    /\ awaiting \subseteq Slot /\ page \in [Slot -> Input]
    /\ writer.pc \in WriterPc /\ op.pc \in OpPc
    /\ run \in 0 .. MaxRuns /\ parked \subseteq Slot
    /\ judged \in [Slot -> [Taps -> 0 .. 2]] /\ seeds \in [Slot -> 0 .. 2]

(* Once begin_run has returned, no page holds input that was received      *)
(* before the run began, whatever pass of the writer was under way: the    *)
(* children only ever advance on samples of the run they preloaded for.    *)
OldRunNotReplayed ==
    ~Beginning \/ op.pc = "begin_epoch" => \A s \in Slot : page[s] # Zero => page[s].run = run

(* A child launched between two runs reads a zero page until begin_run,    *)
(* unless a pass of the writer that had cloned the barrier before it       *)
(* closed was still under way: the last results of the previous run must   *)
(* not make it leave the game before it has loaded.                        *)
ParkedReadsNothing == \A s \in parked : page[s] = Zero

(* A tap whose reliable edge reached the runtime before its delayed sample *)
(* was due is judged at most once by a child, by the edge or by the raw    *)
(* flag of the sample but never by both, while the clock is not rebuilt.   *)
(* While begin_run drops the buffers one after the other, a late sample of *)
(* the old run, later than the delay, can repeat a tap to its children.    *)
JudgedOnce ==
    ~rebuilt /\ ~Beginning => \A s \in Slot, t \in Taps \ tardy : judged[s][t] < 2

(* While the cohort and its anchors stay as they were at the release, a    *)
(* slot's paddle is seeded, and its clock put back to the first note, at   *)
(* most once in a run.                                                     *)
SeededOncePerCohort == ~rebuilt => \A s \in Slot : seeds[s] < 2

(* The children play the input of this run, once.                          *)
InputIsCurrent == OldRunNotReplayed /\ ParkedReadsNothing /\ JudgedOnce /\ SeededOncePerCohort

(* "... the runtime releases the cohort on a shared clock, seeds each      *)
(* paddle once, and enables capture" (docs/obs-setup.md:119): also when    *)
(* another slot stops during the run.  The code does not keep this.        *)
SeededOnce == \A s \in Slot : seeds[s] < 2
===============================================================================
