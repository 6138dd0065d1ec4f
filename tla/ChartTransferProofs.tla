-------------------------- MODULE ChartTransferProofs --------------------------
(***************************************************************************)
(* Proofs about ChartTransfer, for any participants, charts, limits and    *)
(* bounds.                                                                 *)
(***************************************************************************)
EXTENDS ChartTransfer, FiniteSetTheorems, TLAPS

HostTyped ==
    /\ chart \in Lock /\ verified \in [Peer -> BOOLEAN]
    /\ hearing \in [Peer -> Lock] /\ forgotten \subseteq Request
    /\ active \subseteq Peer /\ IsFiniteSet(active) /\ Cardinality(active) <= MaxBuilds
    /\ build \in [Peer -> [pc : BuildPc, chart : Lock, id : Request \cup {0}]]
    /\ pending \in [Peer -> Request \cup {0}] /\ archives \subseteq Request
    /\ packages \subseteq Chart /\ of \in [Request -> Lock] /\ sending \subseteq Peer \X Request
WireTyped ==
    /\ connected \in [Peer -> BOOLEAN] /\ streams \subseteq Peer \X Request
    /\ toHost \in [Peer -> Seq(Message)] /\ toPeer \in [Peer -> Seq(Message)]
MatchTyped ==
    /\ room \in [Peer -> [chart : Lock, verified : BOOLEAN]]
    /\ scanned \in [Peer -> Lock] /\ requested \in [Peer -> Lock]
OfferTyped ==
    /\ offer \in [Peer -> Request \cup {0}] /\ trusted \in [Peer -> BOOLEAN]
    /\ authorized \in [Peer -> SUBSET Request] /\ consented \subseteq Request
InstallTyped ==
    /\ have \in [Peer -> SUBSET Chart] /\ arrived \in [Peer -> SUBSET Request]
    /\ installing \in [Peer -> Request \cup {0}]
    /\ \A p \in Peer : installing[p] # 0 => of[installing[p]] # NoChart
BudgetTyped == budget \in [{"lock", "manual", "fault", "archive"} -> Nat]

\* An archive is named once it is packed, of a chart, and one request is packed
\* at a time.
Packaged ==
    /\ \A p \in Peer : build[p].pc # "idle" => build[p].chart # NoChart
    /\ \A p \in Peer : build[p].pc \in {"offering", "sending"} <=> build[p].id # 0
    /\ \A p, q \in Peer :
          {build[p].pc, build[q].pc} \cap {"idle", "queued"} = {} => p = q

Typed ==
    /\ HostTyped /\ WireTyped /\ MatchTyped /\ OfferTyped /\ InstallTyped /\ BudgetTyped
    /\ Packaged

--------------------------------------------------------------------------------
(* Messages and the helpers that send them. *)

LEMMA MessageFields ==
    ASSUME NEW m \in Message
    PROVE  /\ m.kind = "snapshot" => m.chart \in Lock /\ m.verified \in BOOLEAN
           /\ m.kind \in {"offer", "decision"} => m.id \in Request /\ m.accept \in BOOLEAN
           /\ m.kind = "request" => m.chart \in Chart
           /\ m.kind = "status" => m.verified \in BOOLEAN
  BY DEF Message

LEMMA MessagesTyped ==
    /\ \A p \in Peer, ok \in BOOLEAN, c \in Lock : Snapshot(p, c, ok) \in Message
    /\ \A ok \in BOOLEAN : Status(ok) \in Message
    /\ \A c \in Chart : [kind |-> "request", chart |-> c] \in Message
    /\ \A r \in Request, accept \in BOOLEAN :
          /\ Decision(r, accept) \in Message
          /\ [kind |-> "offer", id |-> r, accept |-> accept] \in Message
    /\ [kind |-> "gone"] \in Message
  BY DEF Snapshot, Status, Decision, Message

LEMMA TellTyped ==
    ASSUME toHost \in [Peer -> Seq(Message)], NEW p \in Peer, NEW m \in Message, Tell(p, m)
    PROVE  toHost' \in [Peer -> Seq(Message)]
  BY DEF Tell

LEMMA BroadcastTyped ==
    ASSUME toPeer \in [Peer -> Seq(Message)], NEW c \in Lock, NEW ok \in [Peer -> BOOLEAN],
           Broadcast(c, ok)
    PROVE  toPeer' \in [Peer -> Seq(Message)]
  <1>1. \A p \in Peer : Snapshot(p, c, ok[p]) \in Message
    BY DEF Snapshot, Message
  <1> QED BY <1>1 DEF Broadcast

LEMMA SpendTyped ==
    ASSUME BudgetTyped, NEW kind \in {"lock", "manual", "fault", "archive"}, Spend(kind)
    PROVE  BudgetTyped' /\ (kind # "archive" => budget'.archive = budget.archive)
                        /\ (kind = "archive" => budget'.archive = budget.archive + 1)
  BY DEF BudgetTyped, Spend

LEMMA PickTyped ==
    ASSUME BudgetTyped, SpendPick
    PROVE  BudgetTyped' /\ budget'.archive = budget.archive
  BY DEF BudgetTyped, SpendPick

LEMMA HeadTyped ==
    ASSUME NEW q \in Seq(Message), q # <<>>
    PROVE  Head(q) \in Message /\ Tail(q) \in Seq(Message)
  OBVIOUS

LEMMA DeleteTyped ==
    ASSUME archives \subseteq Request, packages \subseteq Chart, NEW r, Delete(r)
    PROVE  archives' \subseteq Request /\ packages' \subseteq Chart
  BY DEF Delete

--------------------------------------------------------------------------------
(* Every step keeps the types: those that leave the host's side alone,     *)
(* those of the packaging task, and those that hear a message.             *)

LEMMA TypedInit == Init => Typed
<1> SUFFICES ASSUME Init PROVE Typed
  OBVIOUS
<1>1. HostTyped
  <2>1. IsFiniteSet({}) /\ Cardinality({}) = 0
    BY FS_EmptySet
  <2> QED BY <2>1, TransferAssumption DEF Init, HostTyped, Idle, Lock, BuildPc
<1>2. WireTyped /\ MatchTyped /\ OfferTyped /\ InstallTyped
  BY TransferAssumption DEF Init, WireTyped, MatchTyped, OfferTyped, InstallTyped, Lock
<1>3. BudgetTyped
  BY DEF Init, BudgetTyped, Limit
<1>4. Packaged
  BY DEF Init, Packaged, Idle
<1> QED BY <1>1, <1>2, <1>3, <1>4 DEF Typed

\* A task that ends makes room and leaves nothing named.
LEMMA BuildEndsTyped ==
    ASSUME Typed, NEW p \in Peer, BuildEnds(p),
           archives' \subseteq Request, packages' \subseteq Chart,
           pending' \in [Peer -> Request \cup {0}], of' \in [Request -> Lock],
           forgotten' \subseteq Request, UNCHANGED <<chart, verified, hearing, sending>>
    PROVE  HostTyped' /\ Packaged'
<1>1. active' \subseteq Peer /\ IsFiniteSet(active') /\ Cardinality(active') <= MaxBuilds
  <2>1. active' = active \ {p} /\ active \subseteq Peer /\ IsFiniteSet(active)
    BY DEF BuildEnds, Typed, HostTyped
  <2>2. IsFiniteSet(active') /\ Cardinality(active') <= Cardinality(active)
    BY <2>1, FS_Subset
  <2>3. Cardinality(active) \in Nat /\ Cardinality(active') \in Nat /\ MaxBuilds \in Nat
    BY <2>1, <2>2, FS_CardinalityType, TransferAssumption
  <2>4. Cardinality(active) <= MaxBuilds
    BY DEF Typed, HostTyped
  <2> QED BY <2>1, <2>2, <2>3, <2>4
<1>2. build' \in [Peer -> [pc : BuildPc, chart : Lock, id : Request \cup {0}]]
  BY DEF BuildEnds, Typed, HostTyped, Idle, Lock, BuildPc
<1>3. Packaged'
  BY DEF BuildEnds, Typed, HostTyped, Packaged, Idle
<1> QED BY <1>1, <1>2, <1>3 DEF Typed, HostTyped

LEMMA TypedPackaging ==
    ASSUME Typed, NEW p \in Peer, Packaging(p)
    PROVE  Typed'
<1> USE DEF Typed
<1>1. CASE StartPacking(p)
  <2>1. CASE BuildEnds(p)
    <3>1. HostTyped' /\ Packaged'
      BY <1>1, <2>1, BuildEndsTyped DEF StartPacking, HostTyped
    <3> QED BY <1>1, <3>1 DEF StartPacking, wireVars, matchVars, offerVars, installVars,
                              WireTyped, MatchTyped, OfferTyped, InstallTyped, BudgetTyped
  <2>2. CASE build' = [build EXCEPT ![p].pc = "packing"] /\ UNCHANGED active
    <3>1. HostTyped' /\ Packaged'
      BY <1>1, <2>2 DEF StartPacking, HostTyped, Packaged, BuildPc
    <3> QED BY <1>1, <3>1 DEF StartPacking, wireVars, matchVars, offerVars, installVars,
                              WireTyped, MatchTyped, OfferTyped, InstallTyped, BudgetTyped
  <2> QED BY <1>1, <2>1, <2>2 DEF StartPacking
<1>2. ASSUME NEW r \in Request, NewArchive(p, r)
      PROVE  /\ BudgetTyped' /\ build[p].chart \in Chart
             /\ of' \in [Request -> Lock] /\ archives' \subseteq Request
             /\ UNCHANGED installVars => InstallTyped'
  <2>1. BudgetTyped' /\ r = budget.archive + 1
    BY <1>2, SpendTyped DEF NewArchive
  <2>2. build[p].chart \in Chart
    BY <1>2 DEF NewArchive, Packaged, HostTyped, Lock
  <2>3. of' \in [Request -> Lock] /\ archives' \subseteq Request
    BY <1>2, <2>2 DEF NewArchive, HostTyped, Lock
  <2>4. ASSUME UNCHANGED installVars PROVE InstallTyped'
    <3>1. of'[r] # NoChart
      BY <1>2, <2>2, TransferAssumption DEF NewArchive, HostTyped
    <3>2. \A a \in Request : of'[a] = of[a] \/ a = r
      BY <1>2 DEF NewArchive, HostTyped
    <3> QED BY <2>4, <3>1, <3>2 DEF installVars, InstallTyped
  <2> QED BY <2>1, <2>2, <2>3, <2>4
<1>3. CASE Pack(p)
  <2>1. PICK r \in Request :
           NewArchive(p, r) /\ build' = [build EXCEPT ![p].pc = "offering", ![p].id = r]
    BY <1>3 DEF Pack
  <2>2. build[p].pc = "packing"
    BY <2>1 DEF NewArchive
  <2>3. HostTyped'
    BY ZenonT(60), <1>2, <1>3, <2>1 DEF Pack, HostTyped, BuildPc
  <2>4. Packaged'
    BY <2>1, <2>2 DEF Packaged, HostTyped, Request
  <2> QED BY <1>2, <1>3, <2>1, <2>3, <2>4 DEF Pack, wireVars, matchVars, offerVars,
                              WireTyped, MatchTyped, OfferTyped
<1>4. CASE PackingLeaves(p)
  <2>1. PICK r \in Request :
           NewArchive(p, r) /\ forgotten' = forgotten \cup (archives' \cap {r})
    BY <1>4 DEF PackingLeaves
  <2>2. forgotten' \subseteq Request
    BY <2>1 DEF HostTyped
  <2>3. HostTyped' /\ Packaged'
    BY <1>2, <1>4, <2>1, <2>2, BuildEndsTyped DEF PackingLeaves, HostTyped
  <2> QED BY <1>2, <1>4, <2>1, <2>3 DEF PackingLeaves, wireVars, matchVars, offerVars,
                              WireTyped, MatchTyped, OfferTyped
<1>5. CASE PackingFails(p)
  <2>1. HostTyped' /\ Packaged'
    BY <1>5, BuildEndsTyped DEF PackingFails, HostTyped
  <2> QED BY <1>5, <2>1 DEF PackingFails, wireVars, matchVars, offerVars, installVars,
                            WireTyped, MatchTyped, OfferTyped, InstallTyped, BudgetTyped
<1>6. CASE RecordOffer(p)
  <2>1. HostTyped' /\ Packaged'
    <3>1. CASE BuildEnds(p) /\ Delete(build[p].id) /\ UNCHANGED <<pending, forgotten>>
      BY <1>6, <3>1, BuildEndsTyped, DeleteTyped DEF RecordOffer, HostTyped
    <3>2. CASE /\ pending' = [pending EXCEPT ![p] = build[p].id]
               /\ forgotten' = forgotten \cup (archives \cap {pending[p]})
               /\ build' = [build EXCEPT ![p].pc = "sending"]
               /\ UNCHANGED <<active, archives, packages>>
      BY <1>6, <3>2 DEF RecordOffer, HostTyped, Packaged, BuildPc
    <3> QED BY <1>6, <3>1, <3>2 DEF RecordOffer
  <2> QED BY <1>6, <2>1 DEF RecordOffer, wireVars, matchVars, offerVars, installVars,
                            WireTyped, MatchTyped, OfferTyped, InstallTyped, BudgetTyped
<1>7. CASE SendOffer(p)
  <2>1. HostTyped' /\ Packaged'
    <3>1. /\ archives' \subseteq Request /\ packages' \subseteq Chart
          /\ pending' \in [Peer -> Request \cup {0}]
      BY <1>7, DeleteTyped DEF SendOffer, HostTyped
    <3> QED BY <1>7, <3>1, BuildEndsTyped DEF SendOffer, HostTyped
  <2>2. toPeer' \in [Peer -> Seq(Message)]
    <3>1. [kind |-> "offer", id |-> build[p].id, accept |-> FALSE] \in Message
      BY <1>7, MessagesTyped DEF SendOffer, Packaged, HostTyped
    <3>2. toPeer[p] \in Seq(Message) /\ toPeer \in [Peer -> Seq(Message)]
      BY DEF WireTyped
    <3>3. Append(toPeer[p], [kind |-> "offer", id |-> build[p].id, accept |-> FALSE])
            \in Seq(Message)
      BY <3>1, <3>2
    <3> QED BY <1>7, <3>2, <3>3 DEF SendOffer
  <2> QED BY <1>7, <2>1, <2>2 DEF SendOffer, matchVars, offerVars, installVars,
                            WireTyped, MatchTyped, OfferTyped, InstallTyped, BudgetTyped
<1> QED BY <1>1, <1>3, <1>4, <1>5, <1>6, <1>7 DEF Packaging

LEMMA TypedHostHears ==
    ASSUME Typed, NEW p \in Peer, HostHears(p)
    PROVE  Typed'
<1> USE DEF Typed
<1> DEFINE m == Head(toHost[p])
<1>1. toHost[p] \in Seq(Message) /\ (toHost[p] # <<>> =>
                                       m \in Message /\ Tail(toHost[p]) \in Seq(Message))
  BY HeadTyped DEF WireTyped
<1>2. CASE HearStatus(p)
  <2>1. verified' \in [Peer -> BOOLEAN]
    BY <1>1, <1>2, MessageFields DEF HearStatus, Hears, HostTyped
  <2>2. WireTyped'
    BY <1>1, <1>2, <2>1, BroadcastTyped DEF HearStatus, Hears, WireTyped, HostTyped
  <2>3. HostTyped' /\ Packaged'
    BY <1>2, <2>1 DEF HearStatus, HostTyped, Packaged
  <2> QED BY <1>2, <2>2, <2>3 DEF HearStatus, matchVars, offerVars, installVars,
                                  MatchTyped, OfferTyped, InstallTyped, BudgetTyped
<1>3. CASE HearRequest(p)
  <2>1. m.chart \in Chart
    BY <1>1, <1>3, MessageFields DEF HearRequest, Hears
  <2>2. WireTyped'
    BY <1>1, <1>3 DEF HearRequest, Hears, WireTyped
  <2>3. hearing' \in [Peer -> Lock]
    BY <1>3, <2>1 DEF HearRequest, HostTyped, Lock
  <2> QED BY <1>3, <2>2, <2>3 DEF HearRequest, HostTyped, Packaged, matchVars, offerVars,
                            installVars, MatchTyped, OfferTyped, InstallTyped, BudgetTyped
<1>6. CASE EnterQueue(p)
  <2>1. hearing' \in [Peer -> Lock] /\ hearing[p] # NoChart
    BY <1>6 DEF EnterQueue, HostTyped, Lock
  <2>2. WireTyped' /\ MatchTyped' /\ OfferTyped' /\ InstallTyped' /\ BudgetTyped'
    BY <1>6 DEF EnterQueue, wireVars, matchVars, offerVars, installVars, WireTyped,
                MatchTyped, OfferTyped, InstallTyped, BudgetTyped
  <2>3. CASE UNCHANGED <<active, build>>
    BY <1>6, <2>1, <2>2, <2>3 DEF EnterQueue, HostTyped, Packaged
  <2>4. CASE /\ p \notin active /\ Cardinality(active) < MaxBuilds
             /\ active' = active \cup {p}
             /\ build' = [build EXCEPT ![p] = [pc |-> "queued", chart |-> hearing[p], id |-> 0]]
    <3>1. IsFiniteSet(active') /\ Cardinality(active') = Cardinality(active) + 1
      BY <2>4, FS_AddElement DEF HostTyped
    <3>2. Cardinality(active) \in Nat /\ MaxBuilds \in Nat
      BY FS_CardinalityType, TransferAssumption DEF HostTyped
    <3>3. active' \subseteq Peer /\ IsFiniteSet(active') /\ Cardinality(active') <= MaxBuilds
      BY <2>4, <3>1, <3>2 DEF HostTyped
    <3>4. build' \in [Peer -> [pc : BuildPc, chart : Lock, id : Request \cup {0}]]
      BY <2>1, <2>4 DEF HostTyped, BuildPc
    <3>5. HostTyped'
      BY <1>6, <2>1, <3>3, <3>4 DEF EnterQueue, HostTyped
    <3>6. Packaged'
      BY <2>1, <2>4 DEF Packaged, HostTyped
    <3> QED BY <2>2, <3>5, <3>6
  <2> QED BY <1>6, <2>3, <2>4 DEF EnterQueue, QueueHasRoom
<1>4. CASE HearDecision(p)
  <2>1. m.id \in Request
    BY <1>1, <1>4, MessageFields DEF HearDecision, Hears
  <2>2. WireTyped'
    BY <1>1, <1>4 DEF HearDecision, Hears, WireTyped
  <2>3. archives' \subseteq Request /\ packages' \subseteq Chart
    BY <1>4, DeleteTyped DEF HearDecision, HostTyped
  <2>4. pending' \in [Peer -> Request \cup {0}] /\ sending' \subseteq Peer \X Request
    BY <1>4, <2>1 DEF HearDecision, HostTyped
  <2>5. HostTyped' /\ Packaged'
    BY <1>4, <2>3, <2>4 DEF HearDecision, HostTyped, Packaged
  <2> QED BY <1>4, <2>2, <2>5 DEF HearDecision, matchVars, offerVars, installVars,
                            MatchTyped, OfferTyped, InstallTyped, BudgetTyped
<1>5. CASE HearLoss(p)
  <2>1. archives' \subseteq Request /\ packages' \subseteq Chart
    BY <1>5, DeleteTyped DEF HearLoss, HostTyped
  <2>2. HostTyped' /\ Packaged'
    BY <1>5, <2>1 DEF HearLoss, HostTyped, Packaged
  <2> QED BY <1>5, <2>2 DEF HearLoss, matchVars, offerVars, installVars, WireTyped,
                            MatchTyped, OfferTyped, InstallTyped, BudgetTyped
<1> QED BY <1>2, <1>3, <1>4, <1>5, <1>6 DEF HostHears

LEMMA TypedParticipant ==
    ASSUME Typed, NEW p \in Peer, Participant(p)
    PROVE  Typed'
<1> USE DEF Typed
<1>1. CASE HearSnapshot(p)
  <2> DEFINE m == Head(toPeer[p])
  <2>1. toPeer[p] \in Seq(Message) /\ toPeer[p] # <<>>
    BY <1>1 DEF HearSnapshot, Hear, WireTyped
  <2>2. m \in Message /\ Tail(toPeer[p]) \in Seq(Message)
    BY <2>1, HeadTyped
  <2>3. m.chart \in Lock /\ m.verified \in BOOLEAN
    BY <1>1, <2>2, MessageFields DEF HearSnapshot, Hear
  <2>4. toPeer' \in [Peer -> Seq(Message)]
    BY <1>1, <2>2 DEF HearSnapshot, Read, WireTyped
  <2>5. toHost' \in [Peer -> Seq(Message)]
    <3>1. CASE Tell(p, Status(TRUE))
      BY <3>1, MessagesTyped, TellTyped DEF WireTyped
    <3>2. CASE m.chart # NoChart /\ Tell(p, [kind |-> "request", chart |-> m.chart])
      <4>1. m.chart \in Chart
        BY <2>3, <3>2 DEF Lock
      <4> QED BY <3>2, <4>1, MessagesTyped, TellTyped DEF WireTyped
    <3>3. CASE UNCHANGED toHost
      BY <3>3 DEF WireTyped
    <3> QED BY <1>1, <3>1, <3>2, <3>3 DEF HearSnapshot
  <2>6. MatchTyped'
    BY <1>1, <2>3 DEF HearSnapshot, MatchTyped
  <2> QED BY <1>1, <2>4, <2>5, <2>6 DEF HearSnapshot, hostVars, offerVars, installVars,
                WireTyped, HostTyped, OfferTyped, InstallTyped, BudgetTyped, Packaged
<1>2. CASE HearOffer(p)
  <2> DEFINE m == Head(toPeer[p])
  <2>1. toPeer[p] \in Seq(Message) /\ toPeer[p] # <<>>
    BY <1>2 DEF HearOffer, Hear, WireTyped
  <2>2. m \in Message /\ Tail(toPeer[p]) \in Seq(Message)
    BY <2>1, HeadTyped
  <2>3. m.id \in Request
    BY <1>2, <2>2, MessageFields DEF HearOffer, Hear
  <2>4. toPeer' \in [Peer -> Seq(Message)]
    BY <1>2, <2>2 DEF HearOffer, Read, WireTyped
  <2>5. toHost' \in [Peer -> Seq(Message)]
    <3>1. CASE Tell(p, Decision(m.id, TRUE))
      BY <2>3, <3>1, MessagesTyped, TellTyped DEF WireTyped
    <3> QED BY <1>2, <3>1 DEF HearOffer, WireTyped
  <2>6. OfferTyped'
    <3>1. CASE CoveredByTrust(p, m.id)
      BY <1>2, <2>3, <3>1 DEF HearOffer, OfferTyped
    <3>2. CASE ~CoveredByTrust(p, m.id)
      BY <1>2, <2>3, <3>2 DEF HearOffer, OfferTyped
    <3> QED BY <3>1, <3>2
  <2> QED BY <1>2, <2>4, <2>5, <2>6 DEF HearOffer, hostVars, matchVars, installVars,
                WireTyped, HostTyped, MatchTyped, InstallTyped, BudgetTyped, Packaged
<1>3. CASE Ask(p)
  <2>1. room[p].chart \in Chart
    BY <1>3 DEF Ask, MatchTyped, Lock
  <2>2. toHost' \in [Peer -> Seq(Message)]
    BY <1>3, <2>1, MessagesTyped, TellTyped DEF Ask, WireTyped
  <2> QED BY <1>3, <2>2, SpendTyped DEF Ask, hostVars, matchVars, offerVars, installVars,
                WireTyped, HostTyped, MatchTyped, OfferTyped, InstallTyped, Packaged
<1>4. ASSUME NEW c \in Chart, Verify(p, c)
      PROVE  Typed'
  <2>1. toHost' \in [Peer -> Seq(Message)]
    <3>1. (room[p].chart = c) \in BOOLEAN
      OBVIOUS
    <3> QED BY <1>4, <3>1, MessagesTyped, TellTyped DEF Verify, WireTyped
  <2>2. InstallTyped'
    BY <1>4 DEF Verify, hostVars, InstallTyped
  <2> QED BY <1>4, <2>1, <2>2, PickTyped DEF Verify, hostVars, matchVars, offerVars,
                WireTyped, HostTyped, MatchTyped, OfferTyped, Packaged
<1>5. ASSUME NEW accept \in BOOLEAN, NEW trust \in BOOLEAN, Decide(p, accept, trust)
      PROVE  Typed'
  <2>1. offer[p] \in Request
    BY <1>5 DEF Decide, OfferTyped
  <2>2. toHost' \in [Peer -> Seq(Message)]
    BY <1>5, <2>1, MessagesTyped, TellTyped DEF Decide, WireTyped
  <2>3. OfferTyped'
    BY <1>5, <2>1 DEF Decide, Authorize, OfferTyped
  <2> QED BY <1>5, <2>2, <2>3 DEF Decide, hostVars, matchVars, installVars,
                WireTyped, HostTyped, MatchTyped, InstallTyped, BudgetTyped, Packaged
<1> QED BY <1>1, <1>2, <1>3, <1>4, <1>5 DEF Participant

LEMMA TypedArchive ==
    ASSUME Typed, NEW p \in Peer, Archive(p)
    PROVE  Typed'
<1> USE DEF Typed
<1>1. ASSUME NEW r \in Request, Send(p, r)
      PROVE  Typed'
  <2>1. archives' \subseteq Request /\ packages' \subseteq Chart
    BY <1>1, DeleteTyped DEF Send, HostTyped
  <2>2. HostTyped' /\ Packaged'
    BY <1>1, <2>1 DEF Send, HostTyped, Packaged
  <2>3. WireTyped'
    BY <1>1 DEF Send, WireTyped
  <2> QED BY <1>1, <2>2, <2>3 DEF Send, matchVars, offerVars, installVars,
                MatchTyped, OfferTyped, InstallTyped, BudgetTyped
<1>2. ASSUME NEW r \in Request, Receive(p, r)
      PROVE  Typed'
  BY <1>2 DEF Receive, hostVars, matchVars, WireTyped, HostTyped, MatchTyped, OfferTyped,
              InstallTyped, BudgetTyped, Packaged
<1>3. ASSUME NEW r \in Request, StreamBreaks(p, r)
      PROVE  Typed'
  BY <1>3, SpendTyped DEF StreamBreaks, hostVars, matchVars, installVars, WireTyped, HostTyped,
              MatchTyped, OfferTyped, InstallTyped, Packaged
<1>4. ASSUME NEW r \in Request, BeginInstall(p, r)
      PROVE  Typed'
  BY <1>4 DEF BeginInstall, hostVars, wireVars, matchVars, offerVars, WireTyped, HostTyped,
              MatchTyped, OfferTyped, InstallTyped, BudgetTyped, Packaged
<1>5. ASSUME NEW intact \in BOOLEAN, EndInstall(p, intact)
      PROVE  Typed'
  <2>1. toHost' \in [Peer -> Seq(Message)]
    BY <1>5, MessagesTyped, TellTyped DEF EndInstall, WireTyped
  <2>2. BudgetTyped'
    BY <1>5, SpendTyped DEF EndInstall, BudgetTyped
  <2>3. InstallTyped'
    <3>1. of[installing[p]] \in Chart
      BY <1>5 DEF EndInstall, InstallTyped, HostTyped, Lock
    <3>2. have' \in [Peer -> SUBSET Chart]
      <4>1. CASE intact
        BY <1>5, <3>1, <4>1 DEF EndInstall, InstallTyped
      <4>2. CASE ~intact
        BY <1>5, <4>2 DEF EndInstall, InstallTyped
      <4> QED BY <4>1, <4>2
    <3>3. installing' \in [Peer -> Request \cup {0}] /\ arrived' = arrived
      BY <1>5 DEF EndInstall, InstallTyped
    <3>4. \A q \in Peer : installing'[q] # 0 => of'[installing'[q]] # NoChart
      BY <1>5 DEF EndInstall, hostVars, InstallTyped
    <3> QED BY <3>2, <3>3, <3>4 DEF InstallTyped
  <2> QED BY <1>5, <2>1, <2>2, <2>3 DEF EndInstall, hostVars, matchVars, offerVars, WireTyped,
              HostTyped, MatchTyped, OfferTyped, Packaged
<1> QED BY <1>1, <1>2, <1>3, <1>4, <1>5 DEF Archive

LEMMA TypedTransport ==
    ASSUME Typed, NEW p \in Peer, Transport(p)
    PROVE  Typed'
<1> USE DEF Typed
<1>1. ASSUME NEW n \in 0 .. Len(toHost[p]), NEW k \in 0 .. Len(toPeer[p]), LoseLink(p, n, k)
      PROVE  Typed'
  <2>1. toHost[p] \in Seq(Message) /\ toPeer[p] \in Seq(Message)
    BY DEF WireTyped
  <2>2. SubSeq(toHost[p], 1, n) \in Seq(Message) /\ SubSeq(toPeer[p], 1, k) \in Seq(Message)
    BY <2>1
  <2>3. Append(SubSeq(toHost[p], 1, n), [kind |-> "gone"]) \in Seq(Message)
    BY <2>2, MessagesTyped
  <2>4. WireTyped'
    BY <1>1, <2>2, <2>3 DEF LoseLink, WireTyped
  <2>5. OfferTyped'
    BY <1>1 DEF LoseLink, OfferTyped
  <2> QED BY <1>1, <2>4, <2>5, SpendTyped DEF LoseLink, hostVars, matchVars, installVars,
              HostTyped, MatchTyped, InstallTyped, Packaged
<1>2. CASE Resume(p)
  <2>1. Snapshot(p, chart, verified[p]) \in Message
    BY MessagesTyped DEF HostTyped
  <2>2. WireTyped'
    BY <1>2, <2>1 DEF Resume, WireTyped
  <2> QED BY <1>2, <2>2 DEF Resume, hostVars, matchVars, offerVars, installVars,
              HostTyped, MatchTyped, OfferTyped, InstallTyped, BudgetTyped, Packaged
<1> QED BY <1>1, <1>2 DEF Transport

LEMMA TypedNext == Typed /\ [Next]_vars => Typed'
<1> SUFFICES ASSUME Typed, [Next]_vars PROVE Typed'
  OBVIOUS
<1>1. ASSUME NEW c \in Chart, LockChart(c)
      PROVE  Typed'
  <2>1. c \in Lock /\ verified' \in [Peer -> BOOLEAN]
    BY <1>1 DEF LockChart, Lock
  <2>2. toPeer' \in [Peer -> Seq(Message)]
    BY <1>1, <2>1, BroadcastTyped DEF LockChart, Typed, WireTyped
  <2> QED BY <1>1, <2>1, <2>2, SpendTyped DEF LockChart, Typed, matchVars, offerVars, installVars,
              WireTyped, HostTyped, MatchTyped, OfferTyped, InstallTyped, Packaged
<1>2. ASSUME NEW p \in Peer,
             Packaging(p) \/ HostHears(p) \/ Participant(p) \/ Archive(p) \/ Transport(p)
      PROVE  Typed'
  BY <1>2, TypedPackaging, TypedHostHears, TypedParticipant, TypedArchive, TypedTransport
<1>3. CASE UNCHANGED vars
  BY <1>3 DEF Typed, vars, hostVars, wireVars, matchVars, offerVars, installVars,
              WireTyped, HostTyped, MatchTyped, OfferTyped, InstallTyped, BudgetTyped, Packaged
<1> QED BY <1>1, <1>2, <1>3 DEF Next

\* The type invariant of the run, for every instance: the message queues hold
\* messages, ids are of archives that were packed, and the packaging queue keeps
\* its limit and packs for one participant at a time.
THEOREM TransferTypeCorrect == Spec => []TypeOK
<1>1. Typed => TypeOK
  <2> SUFFICES ASSUME Typed PROVE TypeOK
    OBVIOUS
  <2> DEFINE Working == {p \in Peer : build[p].pc \notin {"idle", "queued"}}
  <2>1. Cardinality(Working) <= 1
    <3>1. CASE Working = {}
      BY <3>1, FS_EmptySet
    <3>2. ASSUME NEW p \in Working
          PROVE  Cardinality(Working) <= 1
      <4>1. \A q \in Working : q = p
        BY DEF Typed, Packaged
      <4>2. Working = {p}
        BY <3>2, <4>1
      <4>3. Cardinality({p}) = 1
        BY FS_Singleton
      <4> QED BY <4>2, <4>3
    <3> QED BY <3>1, <3>2
  <2>2. \A p \in Peer : \A q \in {toHost[p], toPeer[p]} : \A i \in 1 .. Len(q) : q[i] \in Message
    BY DEF Typed, WireTyped
  <2> QED BY <2>1, <2>2 DEF Typed, HostTyped, WireTyped, MatchTyped, OfferTyped, InstallTyped,
                            TypeOK
<1> QED BY <1>1, TypedInit, TypedNext, PTL DEF Spec

--------------------------------------------------------------------------------
(* Consent. *)

\* Every step leaves what is authorized, received or being installed among what
\* was agreed to.
LEMMA ConsentNext == Typed /\ ConsentBeforeBytes /\ [Next]_vars => ConsentBeforeBytes'
<1> SUFFICES ASSUME Typed, ConsentBeforeBytes, [Next]_vars PROVE ConsentBeforeBytes'
  OBVIOUS
<1> USE DEF Typed, OfferTyped, InstallTyped, ConsentBeforeBytes
<1>1. CASE UNCHANGED <<authorized, arrived, installing, consented>>
  BY <1>1
<1>2. ASSUME NEW p \in Peer, HearOffer(p)
      PROVE  ConsentBeforeBytes'
  <2> DEFINE r == Head(toPeer[p]).id
  <2>1. UNCHANGED <<arrived, installing>>
    BY <1>2 DEF HearOffer, installVars
  <2>2. CASE CoveredByTrust(p, r)
    <3>1. /\ authorized' = [authorized EXCEPT ![p] = @ \cup {r}]
          /\ consented' = consented \cup {r}
      BY <1>2, <2>2 DEF HearOffer, CoveredByTrust
    <3> QED BY <2>1, <3>1
  <2>3. CASE ~CoveredByTrust(p, r)
    BY <1>2, <2>1, <2>3 DEF HearOffer
  <2> QED BY <2>2, <2>3
<1>3. ASSUME NEW p \in Peer, NEW accept \in BOOLEAN, NEW trust \in BOOLEAN,
             Decide(p, accept, trust)
      PROVE  ConsentBeforeBytes'
  <2>1. UNCHANGED <<arrived, installing>>
    BY <1>3 DEF Decide, installVars
  <2>2. CASE Authorize(p, offer[p])
    BY <2>1, <2>2 DEF Authorize
  <2> QED BY <1>3, <2>1, <2>2 DEF Decide
<1>4. ASSUME NEW p \in Peer, NEW r \in Request,
             Receive(p, r) \/ StreamBreaks(p, r) \/ BeginInstall(p, r)
      PROVE  ConsentBeforeBytes'
  <2>1. CASE Receive(p, r)
    <3>1. \A q \in Peer : /\ authorized'[q] \subseteq authorized[q]
                          /\ arrived'[q] \subseteq arrived[q] \cup authorized[q]
      BY <2>1 DEF Receive
    <3> QED BY <2>1, <3>1 DEF Receive
  <2>2. CASE StreamBreaks(p, r)
    BY <2>2 DEF StreamBreaks, installVars
  <2>3. CASE BeginInstall(p, r)
    <3>1. \A q \in Peer : /\ arrived'[q] \subseteq arrived[q]
                          /\ installing'[q] \in {installing[q], 0} \cup arrived[q]
      BY <2>3 DEF BeginInstall
    <3> QED BY <2>3, <3>1 DEF BeginInstall, offerVars
  <2> QED BY <1>4, <2>1, <2>2, <2>3
<1>5. ASSUME NEW p \in Peer, NEW intact \in BOOLEAN, EndInstall(p, intact)
      PROVE  ConsentBeforeBytes'
  BY <1>5 DEF EndInstall, offerVars
<1>6. ASSUME NEW p \in Peer, NEW n \in 0 .. Len(toHost[p]), NEW k \in 0 .. Len(toPeer[p]),
             LoseLink(p, n, k)
      PROVE  ConsentBeforeBytes'
  BY <1>6 DEF LoseLink, installVars
<1> DEFINE Same == UNCHANGED <<authorized, arrived, installing, consented>>
           Touches(p) ==
               \/ HearOffer(p)
               \/ \E accept, trust \in BOOLEAN : Decide(p, accept, trust)
               \/ \E r \in Request : Receive(p, r) \/ StreamBreaks(p, r) \/ BeginInstall(p, r)
               \/ \E intact \in BOOLEAN : EndInstall(p, intact)
               \/ \E n \in 0 .. Len(toHost[p]), k \in 0 .. Len(toPeer[p]) : LoseLink(p, n, k)
<1>7. Same \/ \E p \in Peer : Touches(p)
  <2>1. CASE \E c \in Chart : LockChart(c)
    BY <2>1 DEF LockChart, offerVars, installVars
  <2>2. ASSUME NEW p \in Peer, Packaging(p) \/ HostHears(p)
        PROVE  Same
    BY <2>2 DEF Packaging, HostHears, StartPacking, Pack, PackingFails, PackingLeaves,
                RecordOffer, SendOffer, HearStatus, HearRequest, EnterQueue, HearDecision,
                HearLoss, offerVars, installVars
  <2>3. ASSUME NEW p \in Peer,
               HearSnapshot(p) \/ Ask(p) \/ (\E c \in Chart : Verify(p, c)) \/ Resume(p)
                 \/ \E r \in Request : Send(p, r)
        PROVE  Same
    <3>1. ASSUME NEW c \in Chart, Verify(p, c)
          PROVE  Same
      BY <3>1 DEF Verify, offerVars
    <3>2. ASSUME NEW r \in Request, Send(p, r)
          PROVE  Same
      BY <3>2 DEF Send, offerVars, installVars
    <3>3. CASE HearSnapshot(p) \/ Ask(p) \/ Resume(p)
      BY <3>3 DEF HearSnapshot, Ask, Resume, offerVars, installVars
    <3> QED BY <2>3, <3>1, <3>2, <3>3
  <2>4. CASE UNCHANGED vars
    BY <2>4 DEF vars, offerVars, installVars
  <2>5. ASSUME NEW p \in Peer, Participant(p) \/ Archive(p) \/ Transport(p)
        PROVE  Same \/ Touches(p)
    <3> HIDE DEF Same
    <3>1. CASE Participant(p)
      BY <2>3, <3>1 DEF Participant
    <3>2. CASE Archive(p)
      BY <2>3, <3>2 DEF Archive
    <3>3. CASE Transport(p)
      BY <2>3, <3>3 DEF Transport
    <3> QED BY <2>5, <3>1, <3>2, <3>3
  <2> HIDE DEF Same, Touches
  <2> QED BY <2>1, <2>2, <2>4, <2>5 DEF Next
<1> QED BY <1>1, <1>2, <1>3, <1>4, <1>5, <1>6, <1>7

\* No archive is received or installed that its participant has not agreed to,
\* and trusting the room covers no executable content, through any order of
\* offers, decisions, streams, losses and later locks.
THEOREM ConsentGiven == Spec => []ConsentBeforeBytes
<1>1. Init => ConsentBeforeBytes
  BY DEF Init, ConsentBeforeBytes
<1> QED BY <1>1, TypedInit, TypedNext, ConsentNext, PTL DEF Spec

--------------------------------------------------------------------------------
(* Archives. *)

HoldsOffer(q, r) == \E i \in 1 .. Len(q) : q[i].kind = "offer" /\ q[i].id = r
HoldsDecision(q, r) == \E i \in 1 .. Len(q) : q[i].kind = "decision" /\ q[i].id = r
Mentions(p, r) == offer[p] = r \/ HoldsOffer(toPeer[p], r) \/ HoldsDecision(toHost[p], r)

\* ArchivesAccounted is not inductive: the ids in use must be those of archives
\* that were packed, an archive must not be a package, which Delete would take in
\* its place, and a task that sends its offer must find that offer or none.
Kept ==
    /\ archives \cup forgotten \subseteq 1 .. budget.archive
    /\ \A r \in archives : of[r] \notin Zipped
    /\ \A r \in Request : of[r] # NoChart <=> r <= budget.archive
    /\ \A p \in Peer :
          /\ p \notin active => build[p].pc = "idle"
          /\ build[p].pc = "sending" => pending[p] \in {0, build[p].id}
          /\ build[p].id <= budget.archive /\ pending[p] <= budget.archive
    /\ \A p \in Peer, r \in Request : <<p, r>> \in sending => r <= budget.archive

\* An archive has one holder, or its deletion for one would take it from another.
Alone ==
    \A p, q \in Peer : \A r \in Request :
        /\ pending[p] = r /\ pending[q] = r => p = q
        /\ <<p, r>> \in sending => pending[q] # r /\ build[q].id # r
        /\ <<p, r>> \in sending /\ <<q, r>> \in sending => p = q
        /\ pending[p] = r /\ build[q].id = r => p = q /\ build[p].pc = "sending"

\* Nobody speaks of an archive before its offer is sent.
Unsent ==
    \A p, q \in Peer : \A r \in Request :
        Mentions(p, r) => r <= budget.archive /\ build[q].id # r

Accounts == Kept /\ Alone /\ Unsent /\ ArchivesAccounted

\* While archives are no packages, deleting removes just the archive.
LEMMA DeleteRemoves ==
    ASSUME Typed, Kept, NEW r \in Request \cup {0}, Delete(r)
    PROVE  archives' = archives \ {r}
<1>1. 0 \notin archives
  BY DEF Typed, HostTyped, Request
<1> QED BY <1>1 DEF Delete, Kept

\* What a queue speaks of when a message is added, and when some are gone.
LEMMA AddedMentions ==
    ASSUME NEW q \in Seq(Message), NEW m \in Message
    PROVE  /\ \A r : HoldsOffer(Append(q, m), r) =>
                  HoldsOffer(q, r) \/ (m.kind = "offer" /\ m.id = r)
           /\ \A r : HoldsDecision(Append(q, m), r) =>
                  HoldsDecision(q, r) \/ (m.kind = "decision" /\ m.id = r)
<1> DEFINE a == Append(q, m)
<1>1. \A i \in 1 .. Len(a) : (i \in 1 .. Len(q) /\ a[i] = q[i]) \/ a[i] = m
  OBVIOUS
<1> HIDE DEF a
<1>2. /\ \A r : HoldsOffer(a, r) => HoldsOffer(q, r) \/ (m.kind = "offer" /\ m.id = r)
      /\ \A r : HoldsDecision(a, r) =>
             HoldsDecision(q, r) \/ (m.kind = "decision" /\ m.id = r)
  BY <1>1 DEF HoldsOffer, HoldsDecision
<1> QED BY <1>2 DEF a

LEMMA LostMentions ==
    ASSUME NEW q \in Seq(Message)
    PROVE  /\ \A n \in 0 .. Len(q) : \A r :
                  /\ HoldsOffer(SubSeq(q, 1, n), r) => HoldsOffer(q, r)
                  /\ HoldsDecision(SubSeq(q, 1, n), r) => HoldsDecision(q, r)
           /\ q # <<>> => \A r : /\ HoldsOffer(Tail(q), r) => HoldsOffer(q, r)
                                 /\ HoldsDecision(Tail(q), r) => HoldsDecision(q, r)
<1>1. ASSUME NEW n \in 0 .. Len(q), NEW r
      PROVE  /\ HoldsOffer(SubSeq(q, 1, n), r) => HoldsOffer(q, r)
             /\ HoldsDecision(SubSeq(q, 1, n), r) => HoldsDecision(q, r)
  <2> DEFINE s == SubSeq(q, 1, n)
  <2>1. \A i \in 1 .. Len(s) : i \in 1 .. Len(q) /\ s[i] = q[i]
    OBVIOUS
  <2> HIDE DEF s
  <2>2. /\ HoldsOffer(s, r) => HoldsOffer(q, r)
        /\ HoldsDecision(s, r) => HoldsDecision(q, r)
    BY <2>1 DEF HoldsOffer, HoldsDecision
  <2> QED BY <2>2 DEF s
<1>2. ASSUME q # <<>>, NEW r
      PROVE  /\ HoldsOffer(Tail(q), r) => HoldsOffer(q, r)
             /\ HoldsDecision(Tail(q), r) => HoldsDecision(q, r)
  <2> DEFINE t == Tail(q)
  <2>1. \A i \in 1 .. Len(t) : i + 1 \in 1 .. Len(q) /\ t[i] = q[i + 1]
    BY <1>2
  <2> HIDE DEF t
  <2>2. /\ HoldsOffer(t, r) => HoldsOffer(q, r)
        /\ HoldsDecision(t, r) => HoldsDecision(q, r)
    BY <2>1 DEF HoldsOffer, HoldsDecision
  <2> QED BY <2>2 DEF t
<1> QED BY <1>1, <1>2

LEMMA ToldMentions ==
    ASSUME Typed, NEW p \in Peer, NEW m \in Message, Tell(p, m)
    PROVE  \A x \in Peer : \A r : HoldsDecision(toHost'[x], r) =>
               HoldsDecision(toHost[x], r) \/ (x = p /\ m.kind = "decision" /\ m.id = r)
<1> SUFFICES ASSUME NEW x \in Peer, NEW r, HoldsDecision(toHost'[x], r)
             PROVE  HoldsDecision(toHost[x], r) \/ (x = p /\ m.kind = "decision" /\ m.id = r)
  OBVIOUS
<1>1. toHost \in [Peer -> Seq(Message)]
  BY DEF Typed, WireTyped
<1>2. toHost'[x] = toHost[x] \/ (x = p /\ toHost'[x] = Append(toHost[x], m))
  BY <1>1 DEF Tell
<1>3. CASE x = p /\ toHost'[x] = Append(toHost[x], m)
  <2>1. HoldsDecision(Append(toHost[x], m), r)
    BY <1>3
  <2> QED BY <1>1, <1>3, <2>1, AddedMentions
<1> QED BY <1>2, <1>3

LEMMA BroadcastMentions ==
    ASSUME Typed, NEW c \in Lock, NEW ok \in [Peer -> BOOLEAN], Broadcast(c, ok)
    PROVE  \A x \in Peer : \A r : HoldsOffer(toPeer'[x], r) => HoldsOffer(toPeer[x], r)
<1> SUFFICES ASSUME NEW x \in Peer, NEW r, HoldsOffer(toPeer'[x], r)
             PROVE  HoldsOffer(toPeer[x], r)
  OBVIOUS
<1>1. toPeer[x] \in Seq(Message)
  BY DEF Typed, WireTyped
<1>2. Snapshot(x, c, ok[x]) \in Message /\ Snapshot(x, c, ok[x]).kind # "offer"
  BY MessagesTyped DEF Snapshot
<1>3. toPeer'[x] \in {toPeer[x], Append(toPeer[x], Snapshot(x, c, ok[x]))}
  BY DEF Broadcast
<1>4. HoldsOffer(toPeer[x], r) \/ HoldsOffer(Append(toPeer[x], Snapshot(x, c, ok[x])), r)
  BY <1>3
<1> QED BY <1>1, <1>2, <1>4, AddedMentions

\* A step speaks of no archive that was not spoken of, but for a task that sends
\* its offer.
Discreet ==
    \A x \in Peer : \A r \in Request :
        Mentions(x, r)' => \/ Mentions(x, r)
                           \/ build[x].pc = "sending" /\ build[x].id = r /\ build'[x].id = 0

LEMMA DiscreetPackaging ==
    ASSUME Typed, NEW p \in Peer, Packaging(p)
    PROVE  Discreet
<1>1. CASE SendOffer(p)
  <2> SUFFICES ASSUME NEW x \in Peer, NEW r \in Request, Mentions(x, r)', ~Mentions(x, r)
               PROVE  build[x].pc = "sending" /\ build[x].id = r /\ build'[x].id = 0
    BY DEF Discreet
  <2>1. /\ toPeer \in [Peer -> Seq(Message)] /\ build[p].id \in Request
        /\ build \in [Peer -> [pc : BuildPc, chart : Lock, id : Request \cup {0}]]
    BY <1>1 DEF SendOffer, Typed, WireTyped, HostTyped, Packaged
  <2> DEFINE m == [kind |-> "offer", id |-> build[p].id, accept |-> FALSE]
  <2>2. m \in Message /\ m.kind = "offer" /\ m.id = build[p].id
    BY <2>1, MessagesTyped
  <2>3. toPeer'[x] = toPeer[x] \/ (x = p /\ toPeer'[x] = Append(toPeer[x], m))
    BY <1>1, <2>1 DEF SendOffer
  <2> HIDE DEF m
  <2>4. UNCHANGED <<toHost, offer>>
    BY <1>1 DEF SendOffer, offerVars
  <2>5. ~HoldsOffer(toPeer[x], r) /\ HoldsOffer(toPeer'[x], r)
    BY <2>4 DEF Mentions
  <2>6. x = p /\ HoldsOffer(Append(toPeer[x], m), r)
    BY <2>3, <2>5
  <2>7. m.id = r
    BY <2>1, <2>2, <2>5, <2>6, AddedMentions
  <2>8. build[p].pc = "sending" /\ build'[p].id = 0
    BY <1>1, <2>1 DEF SendOffer, BuildEnds, Idle
  <2> QED BY <2>2, <2>6, <2>7, <2>8
<1>2. CASE UNCHANGED <<toHost, toPeer, offer>>
  BY <1>2 DEF Discreet, Mentions
<1> QED BY <1>1, <1>2 DEF Packaging, StartPacking, Pack, PackingFails, PackingLeaves,
                          RecordOffer, wireVars, offerVars

LEMMA DiscreetHost ==
    ASSUME Typed, NEW p \in Peer, HostHears(p)
    PROVE  Discreet
<1> SUFFICES ASSUME NEW x \in Peer, NEW r \in Request, Mentions(x, r)'
             PROVE  Mentions(x, r)
  BY DEF Discreet
<1>1. /\ toHost \in [Peer -> Seq(Message)] /\ toPeer \in [Peer -> Seq(Message)]
      /\ verified \in [Peer -> BOOLEAN] /\ chart \in Lock
  BY DEF Typed, WireTyped, HostTyped
<1>2. offer' = offer
  BY DEF HostHears, HearStatus, HearRequest, EnterQueue, HearDecision, HearLoss, offerVars
<1>3. HoldsDecision(toHost'[x], r) => HoldsDecision(toHost[x], r)
  <2>1. CASE toHost'[x] = toHost[x]
    BY <2>1
  <2>2. CASE toHost[x] # <<>> /\ toHost'[x] = Tail(toHost[x])
    BY <1>1, <2>2, LostMentions
  <2>3. CASE toHost'[x] = <<>>
    BY <2>3 DEF HoldsDecision
  <2> QED BY <1>1, <2>1, <2>2, <2>3 DEF HostHears, HearStatus, HearRequest, EnterQueue,
                                     HearDecision, HearLoss, Hears, wireVars
<1>4. HoldsOffer(toPeer'[x], r) => HoldsOffer(toPeer[x], r)
  <2>1. CASE HearStatus(p)
    <3>1. verified' \in [Peer -> BOOLEAN]
      BY <1>1, <2>1, HeadTyped, MessageFields DEF HearStatus, Hears
    <3> QED BY <1>1, <2>1, <3>1, BroadcastMentions DEF HearStatus
  <2> QED BY <2>1 DEF HostHears, HearRequest, EnterQueue, HearDecision, HearLoss, wireVars
<1> QED BY <1>2, <1>3, <1>4 DEF Mentions

LEMMA DiscreetParticipant ==
    ASSUME Typed, NEW p \in Peer, Participant(p)
    PROVE  Discreet
<1> SUFFICES ASSUME NEW x \in Peer, NEW r \in Request, Mentions(x, r)'
             PROVE  Mentions(x, r)
  BY DEF Discreet
<1>1. /\ toHost \in [Peer -> Seq(Message)] /\ toPeer \in [Peer -> Seq(Message)]
      /\ offer \in [Peer -> Request \cup {0}] /\ room[p].chart \in Lock
  BY DEF Typed, WireTyped, OfferTyped, MatchTyped
<1>2. ASSUME Read(p), toPeer[p] # <<>>, HoldsOffer(toPeer'[x], r)
      PROVE  HoldsOffer(toPeer[x], r)
  BY <1>1, <1>2, LostMentions DEF Read
<1>3. CASE HearSnapshot(p)
  <2> DEFINE c == Head(toPeer[p]).chart
  <2>1. \/ Tell(p, Status(TRUE)) \/ UNCHANGED toHost
        \/ c # NoChart /\ Tell(p, [kind |-> "request", chart |-> c])
    BY <1>3 DEF HearSnapshot
  <2>2. c \in Lock
    BY <1>1, <1>3, HeadTyped, MessageFields DEF HearSnapshot, Hear
  <2> HIDE DEF c
  <2>3. HoldsDecision(toHost'[x], r) => HoldsDecision(toHost[x], r)
    BY <2>1, <2>2, ToldMentions, MessagesTyped DEF Status, Lock
  <2> QED BY <1>2, <1>3, <2>3 DEF HearSnapshot, Hear, offerVars, Mentions
<1>4. CASE HearOffer(p)
  <2> DEFINE s == Head(toPeer[p]).id
  <2>1. s \in Request /\ HoldsOffer(toPeer[p], s)
    <3>1. toPeer[p] \in Seq(Message) /\ toPeer[p] # <<>> /\ Head(toPeer[p]).kind = "offer"
      BY <1>1, <1>4 DEF HearOffer, Hear
    <3>2. s \in Request
      BY <3>1, HeadTyped, MessageFields
    <3>3. 1 \in 1 .. Len(toPeer[p]) /\ toPeer[p][1] = Head(toPeer[p])
      BY <3>1
    <3> QED BY <3>1, <3>2, <3>3 DEF HoldsOffer
  <2>2. UNCHANGED toHost \/ Tell(p, Decision(s, TRUE))
    BY <1>4 DEF HearOffer
  <2>3. offer'[x] \in {0, s, offer[x]} /\ (x # p => offer'[x] = offer[x])
    BY <1>1, <1>4 DEF HearOffer
  <2>4. toPeer[p] # <<>> /\ Read(p)
    BY <1>4 DEF HearOffer, Hear
  <2> HIDE DEF s
  <2>5. HoldsDecision(toHost'[x], r) => HoldsDecision(toHost[x], r) \/ (x = p /\ r = s)
    <3>1. Decision(s, TRUE) \in Message /\ Decision(s, TRUE).id = s
      BY <2>1, MessagesTyped DEF Decision
    <3> QED BY <2>2, <3>1, ToldMentions
  <2> QED BY <1>2, <2>1, <2>3, <2>4, <2>5 DEF Mentions, Request
<1>5. CASE Ask(p)
  <2>1. HoldsDecision(toHost'[x], r) => HoldsDecision(toHost[x], r)
    BY <1>1, <1>5, ToldMentions, MessagesTyped DEF Ask, Lock
  <2> QED BY <1>5, <2>1 DEF Ask, offerVars, Mentions
<1>6. ASSUME NEW c \in Chart, Verify(p, c) PROVE Mentions(x, r)
  <2>1. Status(room[p].chart = c) \in Message /\ Tell(p, Status(room[p].chart = c))
    BY <1>6, MessagesTyped DEF Verify
  <2>2. HoldsDecision(toHost'[x], r) => HoldsDecision(toHost[x], r)
    BY <2>1, ToldMentions DEF Status
  <2> QED BY <1>6, <2>2 DEF Verify, offerVars, Mentions
<1>7. ASSUME NEW accept \in BOOLEAN, NEW trust \in BOOLEAN, Decide(p, accept, trust)
      PROVE  Mentions(x, r)
  <2>1. offer[p] \in Request /\ Tell(p, Decision(offer[p], accept))
    BY <1>1, <1>7 DEF Decide
  <2>2. HoldsDecision(toHost'[x], r) => HoldsDecision(toHost[x], r) \/ (x = p /\ r = offer[p])
    <3>1. Decision(offer[p], accept) \in Message /\ Decision(offer[p], accept).id = offer[p]
      BY <2>1, MessagesTyped DEF Decision
    <3> QED BY <2>1, <3>1, ToldMentions
  <2>3. toPeer' = toPeer /\ offer'[x] \in {0, offer[x]}
    BY <1>1, <1>7 DEF Decide
  <2> QED BY <2>2, <2>3 DEF Mentions, Request
<1> QED BY <1>3, <1>4, <1>5, <1>6, <1>7 DEF Participant

LEMMA DiscreetNext == Typed /\ [Next]_vars => Discreet
<1> SUFFICES ASSUME Typed, [Next]_vars PROVE Discreet
  OBVIOUS
<1>1. CASE UNCHANGED <<toHost, toPeer, offer>>
  BY <1>1 DEF Discreet, Mentions
<1>2. ASSUME NEW c \in Chart, LockChart(c) PROVE Discreet
  <2>1. c \in Lock /\ verified' \in [Peer -> BOOLEAN]
    BY <1>2 DEF LockChart, Lock
  <2> QED BY <1>2, <2>1, BroadcastMentions DEF LockChart, offerVars, Discreet, Mentions
<1>3. ASSUME NEW p \in Peer, NEW r \in Request,
             Send(p, r) \/ Receive(p, r) \/ StreamBreaks(p, r) \/ BeginInstall(p, r)
      PROVE  Discreet
  BY <1>1, <1>3 DEF Send, Receive, StreamBreaks, BeginInstall, wireVars, offerVars
<1>4. ASSUME NEW p \in Peer, NEW intact \in BOOLEAN, EndInstall(p, intact) PROVE Discreet
  <2>1. UNCHANGED <<toPeer, offer>> /\ (toHost' = toHost \/ Tell(p, Status(TRUE)))
    BY <1>4 DEF EndInstall, offerVars
  <2>2. \A x \in Peer, r \in Request :
           HoldsDecision(toHost'[x], r) => HoldsDecision(toHost[x], r)
    BY <2>1, ToldMentions, MessagesTyped DEF Status
  <2> QED BY <2>1, <2>2 DEF Discreet, Mentions
<1>5. ASSUME NEW p \in Peer, Transport(p) PROVE Discreet
  <2>0. /\ toHost \in [Peer -> Seq(Message)] /\ toPeer \in [Peer -> Seq(Message)]
        /\ chart \in Lock /\ verified \in [Peer -> BOOLEAN] /\ offer' = offer
    BY <1>5 DEF Typed, WireTyped, HostTyped, Transport, LoseLink, Resume, offerVars
  <2> SUFFICES ASSUME NEW x \in Peer, NEW r \in Request
               PROVE  /\ HoldsDecision(toHost'[x], r) => HoldsDecision(toHost[x], r)
                      /\ HoldsOffer(toPeer'[x], r) => HoldsOffer(toPeer[x], r)
    BY <2>0 DEF Discreet, Mentions
  <2>1. ASSUME NEW n \in 0 .. Len(toHost[p]), NEW k \in 0 .. Len(toPeer[p]), LoseLink(p, n, k)
        PROVE  /\ HoldsDecision(toHost'[x], r) => HoldsDecision(toHost[x], r)
               /\ HoldsOffer(toPeer'[x], r) => HoldsOffer(toPeer[x], r)
    <3> DEFINE gone == [kind |-> "gone"]
               kept == SubSeq(toHost[p], 1, n)
    <3>1. /\ toHost'[x] = toHost[x] \/ (x = p /\ toHost'[x] = Append(kept, gone))
          /\ toPeer'[x] = toPeer[x] \/ (x = p /\ toPeer'[x] = SubSeq(toPeer[p], 1, k))
      BY <2>0, <2>1 DEF LoseLink
    <3>2. gone \in Message /\ gone.kind = "gone" /\ kept \in Seq(Message)
      BY <2>0, MessagesTyped
    <3>3. HoldsDecision(kept, r) => HoldsDecision(toHost[p], r)
      BY <2>0, LostMentions
    <3> HIDE DEF gone, kept
    <3>4. HoldsDecision(Append(kept, gone), r) => HoldsDecision(kept, r)
      BY <3>2, AddedMentions
    <3> QED BY <2>0, <3>1, <3>3, <3>4, LostMentions
  <2>2. CASE Resume(p)
    <3> DEFINE m == Snapshot(p, chart, verified[p])
    <3>1. m \in Message /\ m.kind = "snapshot"
      BY <2>0, MessagesTyped DEF Snapshot
    <3>2. toHost' = toHost /\ toPeer'[x] \in {toPeer[x], Append(toPeer[x], m)}
      BY <2>0, <2>2 DEF Resume
    <3> HIDE DEF m
    <3>3. HoldsOffer(Append(toPeer[x], m), r) => HoldsOffer(toPeer[x], r)
      BY <2>0, <3>1, AddedMentions
    <3> QED BY <3>2, <3>3
  <2> QED BY <1>5, <2>1, <2>2 DEF Transport
<1>6. ASSUME NEW p \in Peer, Packaging(p) \/ HostHears(p) \/ Participant(p) PROVE Discreet
  BY <1>6, DiscreetPackaging, DiscreetHost, DiscreetParticipant
<1>7. CASE UNCHANGED vars
  BY <1>1, <1>7 DEF vars, wireVars, offerVars
<1> HIDE DEF Discreet
<1> QED BY <1>2, <1>3, <1>4, <1>5, <1>6, <1>7 DEF Next, Archive

\* The steps that name no archive anew: whoever holds one did before, and an
\* archive goes when its holder lets it go.
LEMMA HoldersKept ==
    ASSUME Typed, Kept, Alone, ArchivesAccounted, UNCHANGED of,
           budget'.archive = budget.archive,
           \A p \in Peer : /\ build'[p].id \in {0, build[p].id}
                           /\ p \notin active' => build'[p].pc = "idle"
                           /\ pending'[p] \in {0, pending[p], build[p].id}
                           /\ build'[p].pc = "sending" => pending'[p] \in {0, build'[p].id},
           archives' \subseteq archives, forgotten' \subseteq forgotten \cup archives,
           \A p \in Peer, r \in Request :
               <<p, r>> \in sending' => r <= budget.archive,
           \A r \in Request : /\ Held(r)' => Held(r)
                              /\ r \in archives' \ forgotten' <=>
                                     r \in archives \ forgotten /\ (Held(r) => Held(r)')
    PROVE  Kept' /\ ArchivesAccounted'
<1>1. budget.archive \in Nat
  BY DEF Typed, BudgetTyped
<1>2. archives' \cup forgotten' \subseteq 1 .. budget'.archive
  BY DEF Kept
<1>3. \A p \in Peer :
         /\ p \notin active' => build'[p].pc = "idle"
         /\ build'[p].pc = "sending" => pending'[p] \in {0, build'[p].id}
         /\ build'[p].id <= budget'.archive /\ pending'[p] <= budget'.archive
  BY <1>1 DEF Kept
<1>4. Kept'
  BY <1>2, <1>3 DEF Kept
<1>5. ArchivesAccounted'
  BY DEF ArchivesAccounted
<1> QED BY <1>4, <1>5

LEMMA AloneKept ==
    ASSUME Typed, Alone, sending' \subseteq sending,
           \A p \in Peer : /\ build'[p].id \in {0, build[p].id} /\ pending'[p] \in {0, pending[p]}
                           /\ build[p].pc = "sending" =>
                                  build'[p].pc = "sending" \/ build'[p].id = 0
    PROVE  Alone'
<1> SUFFICES ASSUME NEW p \in Peer, NEW q \in Peer, NEW r \in Request
             PROVE  /\ pending'[p] = r /\ pending'[q] = r => p = q
                    /\ <<p, r>> \in sending' => pending'[q] # r /\ build'[q].id # r
                    /\ <<p, r>> \in sending' /\ <<q, r>> \in sending' => p = q
                    /\ pending'[p] = r /\ build'[q].id = r => p = q /\ build'[p].pc = "sending"
  BY DEF Alone
<1>1. r # 0
  BY DEF Request
<1> QED BY <1>1 DEF Alone

HeldBy(p, r) == \/ build[p].pc = "offering" /\ build[p].id = r
                \/ pending[p] = r \/ <<p, r>> \in sending

LEMMA HeldOrNot == \A r \in Request : /\ Held(r) <=> \E p \in Peer : HeldBy(p, r)
                                      /\ Held(r)' <=> \E p \in Peer : HeldBy(p, r)'
  BY DEF Held, HeldBy

LEMMA AccountedPackaging ==
    ASSUME Typed, Kept, Alone, Unsent, ArchivesAccounted, NEW p \in Peer, Packaging(p)
    PROVE  Kept' /\ Alone' /\ ArchivesAccounted'
<1> USE DEF Typed, HostTyped
<1>0. budget.archive \in Nat
  BY DEF BudgetTyped
<1>1. CASE StartPacking(p) \/ PackingFails(p)
  <2>1. build[p].id = 0 /\ build[p].pc \in {"queued", "packing"}
        /\ UNCHANGED <<archives, forgotten, of, pending, sending, budget>>
    BY <1>1 DEF StartPacking, PackingFails, Packaged
  <2>2. /\ \A q \in Peer \ {p} : build'[q] = build[q] /\ (q \in active' <=> q \in active)
        /\ build'[p].id = 0 /\ build'[p].pc \in {"idle", "packing"}
        /\ p \notin active' => build'[p].pc = "idle"
    <3>1. CASE BuildEnds(p)
      BY <3>1 DEF BuildEnds, Idle
    <3>2. CASE /\ build[p].pc = "queued"
               /\ build' = [build EXCEPT ![p].pc = "packing"] /\ UNCHANGED active
      BY <2>1, <3>2 DEF Kept
    <3> QED BY <1>1, <3>1, <3>2 DEF StartPacking, PackingFails
  <2>3. \A r \in Request : Held(r)' <=> Held(r)
    BY <2>1, <2>2 DEF Held
  <2>4. Kept' /\ ArchivesAccounted'
    BY <1>0, <2>1, <2>2, <2>3 DEF Kept, ArchivesAccounted
  <2>5. Alone'
    BY <2>1, <2>2, AloneKept
  <2> QED BY <2>4, <2>5
<1>2. ASSUME NEW r \in Request, NewArchive(p, r)
      PROVE  /\ r = budget.archive + 1 /\ budget'.archive = r /\ budget.archive \in Nat
             /\ r \notin archives /\ r \notin forgotten
             /\ \A a \in archives' : of'[a] \notin Zipped
             /\ \A a \in Request : of'[a] # NoChart <=> a <= r
             /\ \A a \in Request : a # r => of'[a] = of[a] /\ (a \in archives' <=> a \in archives)
             /\ of'[r] \notin Zipped => r \in archives'
             /\ archives' \subseteq 1 .. r
             /\ build[p].id = 0 /\ build[p].pc = "packing"
  <2>1. r = budget.archive + 1 /\ budget'.archive = r /\ budget.archive \in Nat
    BY <1>2, SpendTyped DEF NewArchive, BudgetTyped
  <2>2. /\ build[p].id = 0 /\ build[p].pc = "packing"
        /\ build[p].chart \in Chart /\ build[p].chart # NoChart
    BY <1>2, TransferAssumption DEF NewArchive, Packaged, Lock
  <2>3. /\ of' = [of EXCEPT ![r] = build[p].chart]
        /\ archives' = IF build[p].chart \in Zipped THEN archives ELSE archives \cup {r}
    BY <1>2 DEF NewArchive
  <2>4. r \notin archives /\ r \notin forgotten
    BY <2>1 DEF Kept
  <2>5. of'[r] = build[p].chart /\ \A a \in Request : a # r => of'[a] = of[a]
    BY <2>3
  <2>6. \A a \in Request : of'[a] # NoChart <=> a <= r
    BY <2>1, <2>2, <2>5 DEF Kept, Request
  <2>7. archives' \subseteq 1 .. r /\ \A a \in archives' : of'[a] \notin Zipped
    <3>1. \A a \in archives : a # r /\ a \in Request /\ a \in 1 .. r /\ of[a] \notin Zipped
      BY <2>1, <2>4 DEF Kept
    <3>2. r \in 1 .. r
      BY <2>1
    <3>3. archives' \subseteq 1 .. r
      BY <2>3, <3>1, <3>2
    <3>4. \A a \in archives' : of'[a] \notin Zipped
      BY <2>3, <2>5, <3>1
    <3> QED BY <3>3, <3>4
  <2> QED BY <2>1, <2>2, <2>3, <2>4, <2>5, <2>6, <2>7
<1>3. CASE Pack(p)
  <2>1. PICK r \in Request :
           NewArchive(p, r) /\ build' = [build EXCEPT ![p].pc = "offering", ![p].id = r]
    BY <1>3 DEF Pack
  <2>2. UNCHANGED <<active, pending, sending, forgotten>>
    BY <1>3 DEF Pack
  <2>3. /\ \A q \in Peer \ {p} : build'[q] = build[q] /\ build[q].id = 0 /\ build[q].pc # "sending"
        /\ build'[p].pc = "offering" /\ build'[p].id = r
    BY <1>2, <2>1 DEF Packaged
  <2>4. p \in active
    BY <1>2, <2>1 DEF Kept
  <2>5. /\ \A q \in Peer : pending[q] # r /\ <<q, r>> \notin sending
        /\ ~Held(r)
    BY <1>2, <2>1, <2>3 DEF Kept, Held
  <2>6. \A a \in Request : Held(a)' <=> Held(a) \/ a = r
    <3>1. \A q \in Peer \ {p} : \A a \in Request : HeldBy(q, a)' <=> HeldBy(q, a)
      BY <2>2, <2>3 DEF HeldBy
    <3>2. \A a \in Request : HeldBy(p, a)' <=> HeldBy(p, a) \/ a = r
      BY <1>2, <2>1, <2>2, <2>3 DEF HeldBy
    <3> QED BY <3>1, <3>2, HeldOrNot
  <2>7. Kept'
    BY <1>2, <2>1, <2>2, <2>3, <2>4 DEF Kept, Request
  <2>8. ArchivesAccounted'
    BY <1>2, <2>1, <2>2, <2>5, <2>6 DEF ArchivesAccounted
  <2>9. Alone'
    <3> SUFFICES ASSUME NEW x \in Peer, NEW y \in Peer, NEW a \in Request
                 PROVE  /\ pending[x] = a /\ pending[y] = a => x = y
                        /\ <<x, a>> \in sending => pending[y] # a /\ build'[y].id # a
                        /\ <<x, a>> \in sending /\ <<y, a>> \in sending => x = y
                        /\ pending[x] = a => build'[y].id # a
      BY <2>2 DEF Alone
    <3>1. build'[y].id \in {0, r} /\ a # 0
      BY <2>3 DEF Request
    <3> QED BY <2>5, <3>1 DEF Alone
  <2> QED BY <2>7, <2>8, <2>9
<1>4. CASE PackingLeaves(p)
  <2>1. PICK r \in Request :
           NewArchive(p, r) /\ forgotten' = forgotten \cup (archives' \cap {r})
    BY <1>4 DEF PackingLeaves
  <2>2. UNCHANGED <<pending, sending>>
    BY <1>4 DEF PackingLeaves
  <2>3. /\ \A q \in Peer \ {p} : build'[q] = build[q] /\ (q \in active' <=> q \in active)
        /\ build'[p].pc = "idle" /\ build'[p].id = 0
    BY <1>4 DEF PackingLeaves, BuildEnds, Idle
  <2>9. \A q \in Peer : build[q].id = 0 /\ build[q].pc # "offering"
    BY <1>2, <2>1 DEF Packaged
  <2>4. ~Held(r)
    <3>1. \A q \in Peer : pending[q] # r /\ <<q, r>> \notin sending
      BY <1>2, <2>1 DEF Kept
    <3> QED BY <2>9, <3>1 DEF Held
  <2>5. \A a \in Request : Held(a)' <=> Held(a)
    BY <2>2, <2>3, <2>9 DEF Held
  <2>6. Kept'
    <3>1. archives' \cup forgotten' \subseteq 1 .. r
      BY <1>2, <2>1 DEF Kept
    <3>2. \A q \in Peer :
             /\ q \notin active' => build'[q].pc = "idle"
             /\ build'[q].pc = "sending" => pending'[q] \in {0, build'[q].id}
             /\ build'[q].id <= r /\ pending'[q] <= r
      BY <1>2, <2>1, <2>2, <2>3, <2>9 DEF Kept
    <3>3. \A q \in Peer, a \in Request : <<q, a>> \in sending' => a <= r
      BY <1>2, <2>1, <2>2 DEF Kept, Request
    <3> QED BY <1>2, <2>1, <3>1, <3>2, <3>3 DEF Kept
  <2>7. ArchivesAccounted'
    BY <1>2, <2>1, <2>4, <2>5 DEF ArchivesAccounted
  <2>8. Alone'
    BY <2>2, <2>3, AloneKept
  <2> QED BY <2>6, <2>7, <2>8
<1>5. CASE RecordOffer(p)
  <2>1. /\ UNCHANGED <<of, sending, budget>> /\ build[p].id \in Request
        /\ build[p].pc = "offering" /\ p \in active
    BY <1>5 DEF RecordOffer, Packaged, Kept
  <2>2. /\ \A q \in Peer : pending[q] # build[p].id /\ <<q, build[p].id>> \notin sending
        /\ \A q \in Peer \ {p} : build[q].id = 0 /\ build[q].pc \in {"idle", "queued"}
    BY <2>1 DEF Alone, Packaged, BuildPc
  <2>3. CASE BuildEnds(p) /\ Delete(build[p].id) /\ UNCHANGED <<pending, forgotten>>
    <3>1. archives' = archives \ {build[p].id}
      BY <2>1, <2>3, DeleteRemoves
    <3>2. /\ \A q \in Peer \ {p} : build'[q] = build[q] /\ (q \in active' <=> q \in active)
          /\ build'[p].pc = "idle" /\ build'[p].id = 0
      BY <2>3 DEF BuildEnds, Idle
    <3>3. \A a \in Request : Held(a)' <=> Held(a) /\ a # build[p].id
      BY <2>1, <2>2, <2>3, <3>2 DEF Held
    <3>4. Kept' /\ ArchivesAccounted'
      <4>1. Held(build[p].id)
        BY <2>1 DEF Held
      <4>2. \A a \in Request : a \in archives' \ forgotten' <=>
                                   a \in archives \ forgotten /\ (Held(a) => Held(a)')
        BY <2>3, <3>1, <3>3, <4>1
      <4> QED BY <2>1, <2>3, <3>1, <3>2, <3>3, <4>2, HoldersKept DEF Kept
    <3>5. Alone'
      BY <2>1, <2>3, <3>2, AloneKept
    <3> QED BY <3>4, <3>5
  <2>4. CASE /\ pending' = [pending EXCEPT ![p] = build[p].id]
             /\ forgotten' = forgotten \cup (archives \cap {pending[p]})
             /\ build' = [build EXCEPT ![p].pc = "sending"]
             /\ UNCHANGED <<active, archives, packages>>
    <3>1. /\ \A q \in Peer \ {p} : build'[q] = build[q] /\ pending'[q] = pending[q]
          /\ build'[p].pc = "sending" /\ build'[p].id = build[p].id /\ pending'[p] = build[p].id
      BY <2>4
    <3>2. \A a \in Request : /\ Held(a) <=> Held(a)' \/ a = pending[p]
                             /\ Held(a)' => a # pending[p]
      <4>1. \A a \in Request : \A q \in Peer \ {p} : HeldBy(q, a)' <=> HeldBy(q, a)
        BY <2>1, <3>1 DEF HeldBy
      <4>2. \A a \in Request : /\ HeldBy(p, a) <=> HeldBy(p, a)' \/ a = pending[p]
                               /\ HeldBy(p, a)' => a # pending[p]
        BY <2>1, <2>2, <3>1 DEF HeldBy, Alone
      <4>3. \A a \in Request : \A q \in Peer \ {p} : HeldBy(q, a) => a # pending[p]
        BY <2>2 DEF HeldBy, Alone
      <4> QED BY <4>1, <4>2, <4>3, HeldOrNot
    <3>3. \A a \in Request : a \in archives' \ forgotten' <=>
                                 a \in archives \ forgotten /\ (Held(a) => Held(a)')
      BY <2>4, <3>2
    <3>4. Kept' /\ ArchivesAccounted'
      BY <2>1, <2>4, <3>1, <3>2, <3>3, HoldersKept DEF Kept
    <3>5. Alone'
      <4> SUFFICES ASSUME NEW x \in Peer, NEW y \in Peer, NEW a \in Request
                   PROVE  /\ pending'[x] = a /\ pending'[y] = a => x = y
                          /\ <<x, a>> \in sending => pending'[y] # a /\ build'[y].id # a
                          /\ <<x, a>> \in sending /\ <<y, a>> \in sending => x = y
                          /\ pending'[x] = a /\ build'[y].id = a =>
                                 x = y /\ build'[x].pc = "sending"
        BY <2>1 DEF Alone
      <4>1. a # 0 /\ (y # p => build'[y].id = 0) /\ build'[p].id = build[p].id
        BY <2>2, <3>1 DEF Request
      <4> QED BY <2>1, <2>2, <3>1, <4>1 DEF Alone
    <3> QED BY <3>4, <3>5
  <2> QED BY <1>5, <2>3, <2>4 DEF RecordOffer
<1>6. CASE SendOffer(p)
  <2>1. /\ UNCHANGED <<of, sending, forgotten, budget>> /\ build[p].id \in Request
        /\ build[p].pc = "sending" /\ pending[p] \in {0, build[p].id}
    BY <1>6 DEF SendOffer, Packaged, Kept
  <2>2. /\ \A q \in Peer \ {p} : build'[q] = build[q] /\ (q \in active' <=> q \in active)
        /\ build'[p].pc = "idle" /\ build'[p].id = 0
    BY <1>6 DEF SendOffer, BuildEnds, Idle
  <2>3. CASE UNCHANGED <<pending, archives, packages>>
    <3>1. \A a \in Request : Held(a)' <=> Held(a)
      BY <2>1, <2>2, <2>3 DEF Held
    <3>2. Kept' /\ ArchivesAccounted'
      BY <1>0, <2>1, <2>2, <2>3, <3>1 DEF Kept, ArchivesAccounted
    <3>3. Alone'
      BY <2>1, <2>2, <2>3, AloneKept
    <3> QED BY <3>2, <3>3
  <2>4. CASE pending' = [pending EXCEPT ![p] = 0] /\ Delete(build[p].id)
    <3>1. archives' = archives \ {build[p].id}
      BY <2>1, <2>4, DeleteRemoves
    <3>2. pending'[p] = 0 /\ \A q \in Peer \ {p} : pending'[q] = pending[q]
      BY <2>4
    <3>3. /\ \A q \in Peer : <<q, build[p].id>> \notin sending
          /\ \A q \in Peer \ {p} : build[q].id # build[p].id /\ pending[q] # build[p].id
      BY <2>1 DEF Alone, Packaged
    <3>4. \A a \in Request : Held(a)' <=> Held(a) /\ a # build[p].id
      <4>1. \A a \in Request : \A q \in Peer : HeldBy(q, a)' <=> HeldBy(q, a) /\ a # build[p].id
        BY <2>1, <2>2, <3>2, <3>3 DEF HeldBy, Request
      <4> QED BY <4>1, HeldOrNot
    <3>5. \A a \in Request : a \in archives \ forgotten /\ a = build[p].id => Held(a)
      BY <2>1, <3>1 DEF ArchivesAccounted, Kept
    <3>6. Kept' /\ ArchivesAccounted'
      <4>1. \A a \in Request : a \in archives' \ forgotten' <=>
                                   a \in archives \ forgotten /\ (Held(a) => Held(a)')
        BY <2>1, <3>1, <3>4, <3>5
      <4> QED BY <2>1, <2>2, <3>1, <3>2, <3>4, <4>1, HoldersKept DEF Kept
    <3>7. Alone'
      BY <2>1, <2>2, <3>2, AloneKept
    <3> QED BY <3>6, <3>7
  <2> QED BY <1>6, <2>3, <2>4 DEF SendOffer
<1> QED BY <1>1, <1>3, <1>4, <1>5, <1>6 DEF Packaging

LEMMA AccountedHost ==
    ASSUME Typed, Kept, Alone, Unsent, ArchivesAccounted, NEW p \in Peer,
           HostHears(p) \/ \E r \in Request : Send(p, r)
    PROVE  Kept' /\ Alone' /\ ArchivesAccounted'
<1> USE DEF Typed, HostTyped
<1>0. budget.archive \in Nat
  BY DEF BudgetTyped
<1>1. ASSUME UNCHANGED <<active, build, pending, archives, forgotten, of, sending, budget>>
      PROVE  Kept' /\ Alone' /\ ArchivesAccounted'
  <2>1. Kept' /\ ArchivesAccounted'
    BY <1>1 DEF Kept, ArchivesAccounted, Held
  <2> QED BY <1>1, <2>1, AloneKept
<1>2. CASE EnterQueue(p)
  <2>1. UNCHANGED <<archives, forgotten, of, pending, sending, budget>>
    BY <1>2 DEF EnterQueue
  <2>2. CASE UNCHANGED <<active, build>>
    BY <1>1, <2>1, <2>2
  <2>3. CASE /\ p \notin active /\ active' = active \cup {p}
             /\ build' = [build EXCEPT ![p] = [pc |-> "queued", chart |-> hearing[p], id |-> 0]]
    <3>1. build[p].id = 0 /\ build[p].pc = "idle"
      BY <2>3 DEF Kept, Packaged
    <3>2. /\ \A q \in Peer \ {p} : build'[q] = build[q]
          /\ build'[p].pc = "queued" /\ build'[p].id = 0
      BY <2>3
    <3>3. \A r \in Request : Held(r)' <=> Held(r)
      BY <2>1, <3>1, <3>2 DEF Held
    <3>4. Kept' /\ ArchivesAccounted'
      BY <1>0, <2>1, <2>3, <3>1, <3>2, <3>3 DEF Kept, ArchivesAccounted
    <3>5. Alone'
      BY <2>1, <3>1, <3>2, AloneKept
    <3> QED BY <3>4, <3>5
  <2> QED BY <1>2, <2>2, <2>3 DEF EnterQueue, QueueHasRoom
<1>3. CASE HearDecision(p)
  <2> DEFINE r == Head(toHost[p]).id
  <2>1. UNCHANGED <<active, build, of, forgotten, budget>>
    BY <1>3 DEF HearDecision
  <2>2. r \in Request /\ Mentions(p, r)
    <3>1. toHost[p] \in Seq(Message) /\ toHost[p] # <<>> /\ Head(toHost[p]).kind = "decision"
      BY <1>3 DEF HearDecision, Hears, WireTyped
    <3>2. r \in Request
      BY <3>1, HeadTyped, MessageFields
    <3>3. 1 \in 1 .. Len(toHost[p]) /\ toHost[p][1] = Head(toHost[p])
      BY <3>1
    <3> QED BY <3>1, <3>2, <3>3 DEF HoldsDecision, Mentions
  <2>3. CASE pending[p] # r
    BY <1>1, <1>3, <2>1, <2>3 DEF HearDecision
  <2>4. CASE pending[p] = r
    <3>1. /\ pending'[p] = 0 /\ \A q \in Peer \ {p} : pending'[q] = pending[q]
          /\ \/ sending' = sending \cup {<<p, r>>} /\ archives' = archives
             \/ sending' = sending /\ archives' = archives \ {r}
      BY <1>3, <2>4, DeleteRemoves DEF HearDecision
    <3> HIDE DEF r
    <3>2. /\ \A q \in Peer : build[q].id # r /\ <<q, r>> \notin sending
          /\ \A q \in Peer \ {p} : pending[q] # r
          /\ r <= budget.archive
      BY <2>2, <2>4 DEF Unsent, Alone
    <3>3. CASE sending' = sending \cup {<<p, r>>} /\ archives' = archives
      <4>1. \A a \in Request : Held(a)' <=> Held(a)
        <5>1. \A a \in Request : \A q \in Peer : HeldBy(q, a)' <=> HeldBy(q, a)
          BY <2>1, <2>2, <2>4, <3>1, <3>2, <3>3 DEF HeldBy, Request
        <5> QED BY <5>1, HeldOrNot
      <4>2. Kept' /\ ArchivesAccounted'
        BY <1>0, <2>1, <3>1, <3>2, <3>3, <4>1 DEF Kept, ArchivesAccounted
      <4>3. Alone'
        <5> SUFFICES ASSUME NEW x \in Peer, NEW y \in Peer, NEW a \in Request
                     PROVE  /\ pending'[x] = a /\ pending'[y] = a => x = y
                            /\ <<x, a>> \in sending' => pending'[y] # a /\ build[y].id # a
                            /\ <<x, a>> \in sending' /\ <<y, a>> \in sending' => x = y
                            /\ pending'[x] = a /\ build[y].id = a =>
                                   x = y /\ build[x].pc = "sending"
          BY <2>1 DEF Alone
        <5>1. a # 0 /\ (<<x, a>> \in sending' => <<x, a>> \in sending \/ (x = p /\ a = r))
              /\ (<<y, a>> \in sending' => <<y, a>> \in sending \/ (y = p /\ a = r))
          BY <3>3 DEF Request
        <5>2. \A z \in Peer : pending'[z] \in {0, pending[z]} /\ pending'[z] # r
          BY <2>2, <3>1, <3>2 DEF Request
        <5> QED BY <3>2, <5>1, <5>2 DEF Alone
      <4> QED BY <4>2, <4>3
    <3>4. CASE sending' = sending /\ archives' = archives \ {r}
      <4>1. \A a \in Request : Held(a)' <=> Held(a) /\ a # r
        <5>1. \A a \in Request : \A q \in Peer : HeldBy(q, a)' <=> HeldBy(q, a) /\ a # r
          BY <2>1, <2>2, <2>4, <3>1, <3>2, <3>4 DEF HeldBy, Request
        <5> QED BY <5>1, HeldOrNot
      <4>2. Held(r)
        BY <2>4 DEF Held
      <4>3. \A a \in Request : a \in archives' \ forgotten' <=>
                                   a \in archives \ forgotten /\ (Held(a) => Held(a)')
        BY <2>1, <3>4, <4>1, <4>2
      <4>4. Kept' /\ ArchivesAccounted'
        BY <2>1, <3>1, <3>4, <4>1, <4>3, HoldersKept DEF Kept
      <4>5. Alone'
        BY <2>1, <3>1, <3>4, AloneKept
      <4> QED BY <4>4, <4>5
    <3> QED BY <3>1, <3>3, <3>4
  <2> QED BY <2>3, <2>4
<1>4. CASE HearLoss(p)
  <2>1. UNCHANGED <<active, build, of, forgotten, budget, sending>>
    BY <1>4 DEF HearLoss
  <2>2. /\ pending'[p] = 0 /\ \A q \in Peer \ {p} : pending'[q] = pending[q]
        /\ archives' = archives \ {pending[p]}
    BY <1>4, DeleteRemoves DEF HearLoss
  <2>3. \A a \in Request : Held(a)' <=> Held(a) /\ a # pending[p]
    <3>1. \A a \in Request : \A q \in Peer :
             /\ HeldBy(q, a)' => HeldBy(q, a) /\ a # pending[p]
             /\ HeldBy(q, a) /\ a # pending[p] => HeldBy(q, a)'
      <4> SUFFICES ASSUME NEW a \in Request, NEW q \in Peer
                   PROVE  /\ HeldBy(q, a)' => HeldBy(q, a) /\ a # pending[p]
                          /\ HeldBy(q, a) /\ a # pending[p] => HeldBy(q, a)'
        OBVIOUS
      <4>1. a # 0 /\ (pending'[q] = a <=> pending[q] = a /\ q # p)
        BY <2>2 DEF Request
      <4>2. a = pending[p] => /\ build[q].id = a => build[q].pc = "sending"
                              /\ q # p => pending[q] # a
                              /\ <<q, a>> \notin sending
        BY DEF Alone
      <4> QED BY <2>1, <4>1, <4>2 DEF HeldBy
    <3> QED BY <3>1, HeldOrNot
  <2>4. \A a \in Request : a \in archives' \ forgotten' <=>
                               a \in archives \ forgotten /\ (Held(a) => Held(a)')
    <3>1. \A a \in Request : a = pending[p] => Held(a)
      BY DEF Held
    <3> QED BY <2>1, <2>2, <2>3, <3>1
  <2>5. Kept' /\ ArchivesAccounted'
    BY <2>1, <2>2, <2>3, <2>4, HoldersKept DEF Kept
  <2>6. Alone'
    BY <2>1, <2>2, AloneKept
  <2> QED BY <2>5, <2>6
<1>5. ASSUME NEW r \in Request, Send(p, r)
      PROVE  Kept' /\ Alone' /\ ArchivesAccounted'
  <2>1. /\ UNCHANGED <<active, build, pending, of, forgotten, budget>> /\ <<p, r>> \in sending
        /\ sending' = sending \ {<<p, r>>} /\ archives' = archives \ {r}
    BY <1>5, DeleteRemoves DEF Send
  <2>2. \A a \in Request : Held(a)' <=> Held(a) /\ a # r
    BY <2>1 DEF Held, Alone
  <2>3. \A a \in Request : a \in archives' \ forgotten' <=>
                               a \in archives \ forgotten /\ (Held(a) => Held(a)')
    <3>1. Held(r)
      BY <2>1 DEF Held
    <3> QED BY <2>1, <2>2, <3>1
  <2>4. Kept' /\ ArchivesAccounted'
    BY <2>1, <2>2, <2>3, HoldersKept DEF Kept
  <2>5. Alone'
    BY <2>1, AloneKept
  <2> QED BY <2>4, <2>5
<1>6. CASE HearStatus(p) \/ HearRequest(p)
  BY <1>1, <1>6 DEF HearStatus, HearRequest
<1> QED BY <1>2, <1>3, <1>4, <1>5, <1>6 DEF HostHears

\* What is spoken of was offered: an id is new or of a task that goes on.
LEMMA UnsentNext ==
    ASSUME Typed, Kept, Unsent, Discreet, budget'.archive \in {budget.archive, budget.archive + 1},
           \A q \in Peer : build'[q].id \in {0, build[q].id} \/ build'[q].id > budget.archive
    PROVE  Unsent'
<1> SUFFICES ASSUME NEW p \in Peer, NEW q \in Peer, NEW r \in Request, Mentions(p, r)'
             PROVE  r <= budget'.archive /\ build'[q].id # r
  BY DEF Unsent
<1>1. budget.archive \in Nat /\ r \in Nat /\ r # 0
  BY DEF Typed, BudgetTyped, Request
<1>2. CASE Mentions(p, r)
  BY <1>1, <1>2 DEF Unsent
<1>3. CASE build[p].pc = "sending" /\ build[p].id = r /\ build'[p].id = 0
  <2>1. r <= budget.archive
    BY <1>3 DEF Kept
  <2>2. q # p => build[q].id # r
    BY <1>1, <1>3 DEF Typed, Packaged
  <2> QED BY <1>1, <1>3, <2>1, <2>2
<1> QED BY <1>2, <1>3 DEF Discreet

LEMMA AccountedNext == Typed /\ Accounts /\ [Next]_vars => Accounts'
<1> SUFFICES ASSUME Typed, Accounts, [Next]_vars PROVE Accounts'
  OBVIOUS
<1> USE DEF Accounts
<1> DEFINE Same == /\ UNCHANGED <<active, build, pending, archives, forgotten, of, sending>>
                   /\ budget'.archive = budget.archive
           Named == /\ budget'.archive \in {budget.archive, budget.archive + 1}
                    /\ \A q \in Peer : \/ build'[q].id \in {0, build[q].id}
                                       \/ build'[q].id > budget.archive
<1>0. Discreet
  BY DiscreetNext
<1>1. CASE Same
  <2>1. Named
    BY <1>1
  <2>2. Unsent'
    BY <1>0, <2>1, UnsentNext
  <2>3. Kept' /\ Alone' /\ ArchivesAccounted'
    BY <1>1 DEF Kept, Alone, ArchivesAccounted, Held
  <2> QED BY <2>2, <2>3
<1>2. ASSUME NEW c \in Chart, LockChart(c)
      PROVE  Same
  BY <1>2, SpendTyped DEF LockChart, Typed
<1>3. ASSUME NEW p \in Peer, Participant(p)
      PROVE  Same
  <2>1. CASE HearSnapshot(p) \/ HearOffer(p)
    BY <2>1 DEF HearSnapshot, HearOffer, hostVars
  <2>2. CASE Ask(p)
    BY <2>2, SpendTyped DEF Ask, hostVars, Typed
  <2>3. ASSUME NEW c \in Chart, Verify(p, c)
        PROVE  Same
    BY <2>3, PickTyped DEF Verify, hostVars, Typed
  <2>4. ASSUME NEW accept \in BOOLEAN, NEW trust \in BOOLEAN, Decide(p, accept, trust)
        PROVE  Same
    BY <2>4 DEF Decide, hostVars
  <2> HIDE DEF Same
  <2> QED BY <1>3, <2>1, <2>2, <2>3, <2>4 DEF Participant
<1>4. ASSUME NEW p \in Peer, NEW r \in Request,
             Receive(p, r) \/ StreamBreaks(p, r) \/ BeginInstall(p, r)
      PROVE  Same
  BY <1>4, SpendTyped DEF Receive, StreamBreaks, BeginInstall, hostVars, Typed
<1>5. ASSUME NEW p \in Peer, NEW intact \in BOOLEAN, EndInstall(p, intact)
      PROVE  Same
  BY <1>5, SpendTyped DEF EndInstall, hostVars, Typed
<1>6. ASSUME NEW p \in Peer, Transport(p)
      PROVE  Same
  BY <1>6, SpendTyped DEF Transport, LoseLink, Resume, hostVars, Typed
<1>7. ASSUME UNCHANGED vars
      PROVE  Same
  BY <1>7 DEF vars, hostVars
<1>8. ASSUME NEW p \in Peer, Packaging(p) \/ HostHears(p) \/ \E r \in Request : Send(p, r)
      PROVE  Named
  <2>0. build \in [Peer -> [pc : BuildPc, chart : Lock, id : Request \cup {0}]]
    BY DEF Typed, HostTyped
  <2>1. CASE Pack(p)
    <3>1. PICK r \in Request :
             NewArchive(p, r) /\ build' = [build EXCEPT ![p].pc = "offering", ![p].id = r]
      BY <2>1 DEF Pack
    <3>2. /\ r = budget.archive + 1 /\ budget'.archive = budget.archive + 1
          /\ budget.archive \in Nat
      BY <3>1, SpendTyped DEF NewArchive, Typed, BudgetTyped
    <3>3. \A q \in Peer : build'[q].id = IF q = p THEN r ELSE build[q].id
      BY <2>0, <3>1
    <3> QED BY <3>2, <3>3
  <2>2. CASE PackingLeaves(p)
    <3>1. budget'.archive = budget.archive + 1
      BY <2>2, SpendTyped DEF PackingLeaves, NewArchive, Typed
    <3> QED BY <2>0, <2>2, <3>1 DEF PackingLeaves, BuildEnds, Idle
  <2>3. CASE StartPacking(p) \/ PackingFails(p) \/ RecordOffer(p) \/ SendOffer(p)
    <3>1. budget' = budget
      BY <2>3 DEF StartPacking, PackingFails, RecordOffer, SendOffer
    <3>2. \A q \in Peer : build'[q].id \in {0, build[q].id}
      BY <2>0, <2>3 DEF StartPacking, PackingFails, RecordOffer, SendOffer, BuildEnds, Idle
    <3> QED BY <3>1, <3>2
  <2>4. CASE HostHears(p) \/ \E r \in Request : Send(p, r)
    <3>1. budget' = budget
      BY <2>4 DEF HostHears, HearStatus, HearRequest, EnterQueue, HearDecision, HearLoss, Send
    <3>2. \/ build' = build
          \/ build' = [build EXCEPT ![p] = [pc |-> "queued", chart |-> hearing[p], id |-> 0]]
      BY <2>4 DEF HostHears, HearStatus, HearRequest, EnterQueue, HearDecision, HearLoss, Send
    <3>3. \A q \in Peer : build'[q].id \in {0, build[q].id}
      BY <2>0, <3>2
    <3> QED BY <3>1, <3>3
  <2> HIDE DEF Named
  <2> QED BY <1>8, <2>1, <2>2, <2>3, <2>4 DEF Packaging
<1>9. ASSUME NEW p \in Peer, Packaging(p) \/ HostHears(p) \/ \E r \in Request : Send(p, r)
      PROVE  Accounts'
  <2>1. Unsent'
    BY <1>0, <1>8, <1>9, UnsentNext
  <2> QED BY <1>9, <2>1, AccountedPackaging, AccountedHost
<1> HIDE DEF Same, Accounts
<1> QED BY <1>1, <1>2, <1>3, <1>4, <1>5, <1>6, <1>7, <1>9 DEF Next, Archive

LEMMA AccountedInit == Init => Accounts
<1> SUFFICES ASSUME Init PROVE Accounts
  OBVIOUS
<1>1. \A p \in Peer : \A r \in Request : ~Mentions(p, r) /\ ~Held(r)
  BY DEF Init, Mentions, HoldsOffer, HoldsDecision, Held, Idle, Request
<1>2. Kept
  BY DEF Init, Kept, Idle, Limit, Request
<1>3. Alone /\ Unsent
  BY <1>1 DEF Init, Alone, Unsent, Idle, Request
<1>4. ArchivesAccounted
  BY DEF Init, ArchivesAccounted, Held, Idle, Request
<1> QED BY <1>2, <1>3, <1>4 DEF Accounts

\* Through declines, losses, changed locks and requests that overtake an offer, an
\* archive exists exactly as long as one packaging task, offer or sender has its
\* path, unless a packing that failed or an offer that was replaced gave that up.
THEOREM NothingLeftBehind == Spec => []ArchivesAccounted
<1>1. Accounts => ArchivesAccounted
  BY DEF Accounts
<1> QED BY <1>1, AccountedInit, TypedInit, TypedNext, AccountedNext, PTL DEF Spec

--------------------------------------------------------------------------------
(* Offers. *)

\* A queue of a participant ends, as far as offers go, with the offer of r.
EndsWithOffer(q, r) ==
    \E i \in 1 .. Len(q) : /\ q[i].kind = "offer" /\ q[i].id = r
                           /\ \A j \in 1 .. Len(q) : j > i => q[j].kind # "offer"

\* OfferIsAnswerable is not inductive: an older offer that is heard later would
\* take the place of the one the host waits for.  None is: the one it waits for
\* is the last on its way, or none is on its way.
Answerable(p) ==
    pending[p] # 0 =>
        /\ connected[p]
        /\ \/ build[p].pc = "sending"
           \/ offer[p] = pending[p] /\ ~Holds(toPeer[p], "offer")
           \/ EndsWithOffer(toPeer[p], pending[p])
           \/ HoldsDecision(toHost[p], pending[p])
           \/ Holds(toHost[p], "gone")
AllAnswerable == \A p \in Peer : Answerable(p)

\* What a queue keeps when a message is added to it.
LEMMA AddedKeeps ==
    ASSUME NEW q \in Seq(Message), NEW m \in Message
    PROVE  /\ \A kind : Holds(q, kind) => Holds(Append(q, m), kind)
           /\ Holds(Append(q, m), m.kind)
           /\ \A kind : m.kind # kind /\ Holds(Append(q, m), kind) => Holds(q, kind)
           /\ \A r : HoldsDecision(q, r) => HoldsDecision(Append(q, m), r)
           /\ m.kind = "decision" => HoldsDecision(Append(q, m), m.id)
           /\ \A r : EndsWithOffer(q, r) /\ m.kind # "offer" => EndsWithOffer(Append(q, m), r)
           /\ m.kind = "offer" => EndsWithOffer(Append(q, m), m.id)
<1> DEFINE a == Append(q, m)
<1>1. /\ Len(a) = Len(q) + 1 /\ a[Len(a)] = m /\ Len(q) \in Nat
      /\ \A i \in 1 .. Len(q) : i \in 1 .. Len(a) /\ a[i] = q[i]
      /\ \A i \in 1 .. Len(a) : i \in 1 .. Len(q) \/ i = Len(a)
      /\ Len(a) \in 1 .. Len(a) /\ \A j \in 1 .. Len(a) : ~(j > Len(a))
  OBVIOUS
<1> HIDE DEF a
<1>2. /\ \A kind : Holds(q, kind) => Holds(a, kind)
      /\ Holds(a, m.kind)
      /\ \A kind : m.kind # kind /\ Holds(a, kind) => Holds(q, kind)
  BY <1>1 DEF Holds
<1>3. /\ \A r : HoldsDecision(q, r) => HoldsDecision(a, r)
      /\ m.kind = "decision" => HoldsDecision(a, m.id)
  BY <1>1 DEF HoldsDecision
<1>4. ASSUME NEW r, EndsWithOffer(q, r), m.kind # "offer" PROVE EndsWithOffer(a, r)
  <2>1. PICK i \in 1 .. Len(q) : /\ q[i].kind = "offer" /\ q[i].id = r
                                 /\ \A j \in 1 .. Len(q) : j > i => q[j].kind # "offer"
    BY <1>4 DEF EndsWithOffer
  <2>2. \A j \in 1 .. Len(a) : j > i => a[j].kind # "offer"
    BY <1>1, <1>4, <2>1
  <2> QED BY <1>1, <2>1, <2>2 DEF EndsWithOffer
<1>5. m.kind = "offer" => EndsWithOffer(a, m.id)
  BY <1>1 DEF EndsWithOffer
<1> QED BY <1>2, <1>3, <1>4, <1>5 DEF a

\* What it keeps when its first message is read.
LEMMA ReadKeeps ==
    ASSUME NEW q \in Seq(Message), q # <<>>
    PROVE  /\ \A kind : Holds(q, kind) /\ Head(q).kind # kind => Holds(Tail(q), kind)
           /\ \A kind : Holds(Tail(q), kind) => Holds(q, kind)
           /\ \A r : HoldsDecision(q, r) /\ ~(Head(q).kind = "decision" /\ Head(q).id = r) =>
                  HoldsDecision(Tail(q), r)
           /\ \A r : EndsWithOffer(q, r) =>
                  \/ EndsWithOffer(Tail(q), r)
                  \/ Head(q).kind = "offer" /\ Head(q).id = r /\ ~Holds(Tail(q), "offer")
<1> DEFINE t == Tail(q)
<1>1. /\ Len(t) = Len(q) - 1 /\ Len(q) \in Nat \ {0} /\ Head(q) = q[1]
      /\ \A i \in 1 .. Len(t) : i + 1 \in 1 .. Len(q) /\ t[i] = q[i + 1]
      /\ \A i \in 1 .. Len(q) : i # 1 => i - 1 \in 1 .. Len(t) /\ t[i - 1] = q[i]
  OBVIOUS
<1> HIDE DEF t
<1>2. /\ \A kind : Holds(q, kind) /\ Head(q).kind # kind => Holds(t, kind)
      /\ \A kind : Holds(t, kind) => Holds(q, kind)
  BY <1>1 DEF Holds
<1>3. \A r : HoldsDecision(q, r) /\ ~(Head(q).kind = "decision" /\ Head(q).id = r) =>
          HoldsDecision(t, r)
  BY <1>1 DEF HoldsDecision
<1>4. ASSUME NEW r, EndsWithOffer(q, r)
      PROVE  \/ EndsWithOffer(t, r)
             \/ Head(q).kind = "offer" /\ Head(q).id = r /\ ~Holds(t, "offer")
  <2>1. PICK i \in 1 .. Len(q) : /\ q[i].kind = "offer" /\ q[i].id = r
                                 /\ \A j \in 1 .. Len(q) : j > i => q[j].kind # "offer"
    BY <1>4 DEF EndsWithOffer
  <2>2. CASE i = 1
    <3>1. \A j \in 1 .. Len(t) : t[j].kind # "offer"
      BY <1>1, <2>1, <2>2
    <3> QED BY <1>1, <2>1, <2>2, <3>1 DEF Holds
  <2>3. CASE i # 1
    <3>1. i - 1 \in 1 .. Len(t) /\ t[i - 1].kind = "offer" /\ t[i - 1].id = r
      BY <1>1, <2>1, <2>3
    <3>2. \A j \in 1 .. Len(t) : j > i - 1 => t[j].kind # "offer"
      BY <1>1, <2>1
    <3> QED BY <3>1, <3>2 DEF EndsWithOffer
  <2> QED BY <2>2, <2>3
<1> QED BY <1>2, <1>3, <1>4 DEF t

\* The steps that leave an offer as answerable as it was: messages are added,
\* and those read settle neither the offer nor the loss of its participant.
HostStillHears(x) ==
    \/ toHost'[x] = toHost[x]
    \/ \E m \in Message : toHost'[x] = Append(toHost[x], m)
    \/ /\ toHost[x] # <<>> /\ toHost'[x] = Tail(toHost[x]) /\ Head(toHost[x]).kind # "gone"
       /\ Head(toHost[x]).kind = "decision" => Head(toHost[x]).id # pending'[x]
PeerStillHears(x) ==
    \/ toPeer'[x] = toPeer[x]
    \/ \E m \in Message : m.kind # "offer" /\ toPeer'[x] = Append(toPeer[x], m)
    \/ toPeer[x] # <<>> /\ toPeer'[x] = Tail(toPeer[x]) /\ Head(toPeer[x]).kind # "offer"

LEMMA AnswerableKept ==
    ASSUME Typed, NEW x \in Peer, Answerable(x), pending'[x] \in {0, pending[x]},
           connected'[x] = connected[x], build[x].pc = "sending" => build'[x] = build[x],
           offer'[x] = offer[x], HostStillHears(x), PeerStillHears(x)
    PROVE  Answerable(x)'
<1>1. toHost[x] \in Seq(Message) /\ toPeer[x] \in Seq(Message)
  BY DEF Typed, WireTyped
<1> SUFFICES ASSUME pending'[x] # 0 PROVE Answerable(x)'
  BY DEF Answerable
<1>2. pending'[x] = pending[x] /\ connected'[x]
  BY DEF Answerable
<1>3. /\ HoldsDecision(toHost[x], pending[x]) => HoldsDecision(toHost'[x], pending[x])
      /\ Holds(toHost[x], "gone") => Holds(toHost'[x], "gone")
  <2>1. CASE toHost'[x] = toHost[x]
    BY <2>1
  <2>2. ASSUME NEW m \in Message, toHost'[x] = Append(toHost[x], m)
        PROVE  /\ HoldsDecision(toHost[x], pending[x]) => HoldsDecision(toHost'[x], pending[x])
               /\ Holds(toHost[x], "gone") => Holds(toHost'[x], "gone")
    BY <1>1, <2>2, AddedKeeps
  <2>3. CASE /\ toHost[x] # <<>> /\ toHost'[x] = Tail(toHost[x])
             /\ Head(toHost[x]).kind # "gone"
             /\ Head(toHost[x]).kind = "decision" => Head(toHost[x]).id # pending'[x]
    BY <1>1, <1>2, <2>3, ReadKeeps
  <2> QED BY <2>1, <2>2, <2>3 DEF HostStillHears
<1>4. /\ ~Holds(toPeer[x], "offer") => ~Holds(toPeer'[x], "offer")
      /\ EndsWithOffer(toPeer[x], pending[x]) => EndsWithOffer(toPeer'[x], pending[x])
  <2>1. CASE toPeer'[x] = toPeer[x]
    BY <2>1
  <2>2. ASSUME NEW m \in Message, m.kind # "offer", toPeer'[x] = Append(toPeer[x], m)
        PROVE  /\ ~Holds(toPeer[x], "offer") => ~Holds(toPeer'[x], "offer")
               /\ EndsWithOffer(toPeer[x], pending[x]) =>
                      EndsWithOffer(toPeer'[x], pending[x])
    BY <1>1, <2>2, AddedKeeps
  <2>3. CASE toPeer[x] # <<>> /\ toPeer'[x] = Tail(toPeer[x])
             /\ Head(toPeer[x]).kind # "offer"
    BY <1>1, <2>3, ReadKeeps
  <2> QED BY <2>1, <2>2, <2>3 DEF PeerStillHears
<1> QED BY <1>2, <1>3, <1>4 DEF Answerable

\* What a participant tells the host arrives, or its loss does.
LEMMA Told ==
    ASSUME Typed, NEW p \in Peer, NEW m \in Message, Tell(p, m)
    PROVE  /\ \A x \in Peer : HostStillHears(x)
           /\ connected[p] => Holds(toHost[p], "gone") \/ toHost'[p] = Append(toHost[p], m)
<1>1. toHost \in [Peer -> Seq(Message)]
  BY DEF Typed, WireTyped
<1>2. CASE Link(p)
  <2>1. toHost' = [toHost EXCEPT ![p] = Append(toHost[p], m)]
    BY <1>2 DEF Tell
  <2> QED BY <1>1, <2>1 DEF HostStillHears
<1>3. CASE ~Link(p)
  <2>1. toHost' = toHost
    BY <1>3 DEF Tell
  <2>2. connected[p] => Holds(toHost[p], "gone")
    BY <1>3 DEF Link, Holds
  <2> QED BY <2>1, <2>2 DEF HostStillHears
<1> QED BY <1>2, <1>3

LEMMA Broadcasted ==
    ASSUME Typed, NEW c \in Lock, NEW ok \in [Peer -> BOOLEAN], Broadcast(c, ok)
    PROVE  \A x \in Peer : PeerStillHears(x)
<1> SUFFICES ASSUME NEW x \in Peer PROVE PeerStillHears(x)
  OBVIOUS
<1>1. Snapshot(x, c, ok[x]) \in Message /\ Snapshot(x, c, ok[x]).kind # "offer"
  BY MessagesTyped DEF Snapshot
<1>2. toPeer'[x] \in {toPeer[x], Append(toPeer[x], Snapshot(x, c, ok[x]))}
  BY DEF Broadcast
<1> QED BY <1>1, <1>2 DEF PeerStillHears

LEMMA AnswerableHost ==
    ASSUME Typed, Kept, AllAnswerable, NEW p \in Peer, HostHears(p)
    PROVE  AllAnswerable'
<1> SUFFICES ASSUME NEW x \in Peer PROVE Answerable(x)'
  BY DEF AllAnswerable
<1>0. /\ Answerable(x) /\ toHost \in [Peer -> Seq(Message)]
      /\ pending \in [Peer -> Request \cup {0}] /\ connected \in [Peer -> BOOLEAN]
      /\ verified \in [Peer -> BOOLEAN] /\ chart \in Lock
  BY DEF AllAnswerable, Typed, HostTyped, WireTyped
<1>1. CASE HearStatus(p)
  <2>1. Head(toHost[p]) \in Message /\ Head(toHost[p]).kind = "status" /\ toHost[p] # <<>>
    BY <1>0, <1>1, HeadTyped DEF HearStatus, Hears
  <2>2. verified' \in [Peer -> BOOLEAN]
    BY <1>0, <1>1, <2>1, MessageFields DEF HearStatus
  <2>3. PeerStillHears(x)
    BY <1>0, <1>1, <2>2, Broadcasted DEF HearStatus
  <2>4. HostStillHears(x)
    BY <1>0, <1>1, <2>1 DEF HearStatus, HostStillHears
  <2> QED
    BY <1>0, <1>1, <2>3, <2>4, AnswerableKept DEF HearStatus, offerVars
<1>2. CASE HearRequest(p)
  <2>1. toHost[p] # <<>> /\ Head(toHost[p]).kind = "request"
    BY <1>2 DEF HearRequest, Hears
  <2>2. HostStillHears(x) /\ PeerStillHears(x)
    BY <1>0, <1>2, <2>1 DEF HearRequest, HostStillHears, PeerStillHears
  <2> QED
    BY <1>0, <1>2, <2>2, AnswerableKept DEF HearRequest, offerVars
<1>5. CASE EnterQueue(p)
  <2>1. UNCHANGED <<pending, connected, toHost, toPeer, offer>>
    BY <1>5 DEF EnterQueue, wireVars, offerVars
  <2>2. build[x].pc = "sending" => build'[x] = build[x]
    <3>1. p \notin active => build[p].pc = "idle"
      BY DEF Kept
    <3>2. \/ build' = build
          \/ /\ p \notin active
             /\ build' = [build EXCEPT ![p] =
                            [pc |-> "queued", chart |-> hearing[p], id |-> 0]]
      BY <1>5 DEF EnterQueue, QueueHasRoom
    <3> QED BY <3>1, <3>2 DEF Typed, HostTyped
  <2> QED BY <1>0, <2>1, <2>2, AnswerableKept DEF HostStillHears, PeerStillHears
<1>3. CASE HearDecision(p)
  <2>1. toHost[p] # <<>> /\ Head(toHost[p]).kind = "decision"
    BY <1>3 DEF HearDecision, Hears
  <2>2. pending'[x] \in {0, pending[x]} /\ (x = p => pending'[x] # Head(toHost[p]).id)
    BY <1>0, <1>3, HeadTyped, MessageFields DEF HearDecision, Hears, Request
  <2>3. HostStillHears(x) /\ PeerStillHears(x)
    BY <1>0, <1>3, <2>1, <2>2 DEF HearDecision, HostStillHears, PeerStillHears
  <2> QED
    BY <1>0, <1>3, <2>2, <2>3, AnswerableKept DEF HearDecision, offerVars
<1>4. CASE HearLoss(p)
  <2>1. pending'[p] = 0
    BY <1>0, <1>4 DEF HearLoss
  <2>2. x # p => HostStillHears(x) /\ PeerStillHears(x) /\ pending'[x] = pending[x]
                    /\ connected'[x] = connected[x]
    BY <1>0, <1>4 DEF HearLoss, HostStillHears, PeerStillHears
  <2> QED
    BY <1>0, <1>4, <2>1, <2>2, AnswerableKept DEF HearLoss, offerVars, Answerable
<1> QED BY <1>1, <1>2, <1>3, <1>4, <1>5 DEF HostHears

LEMMA AnswerablePackaging ==
    ASSUME Typed, Kept, AllAnswerable, NEW p \in Peer, Packaging(p)
    PROVE  AllAnswerable'
<1> SUFFICES ASSUME NEW x \in Peer PROVE Answerable(x)'
  BY DEF AllAnswerable
<1>0. /\ Answerable(x) /\ toPeer \in [Peer -> Seq(Message)] /\ build[p].id \in Request \cup {0}
      /\ pending \in [Peer -> Request \cup {0}] /\ connected \in [Peer -> BOOLEAN]
      /\ build \in [Peer -> [pc : BuildPc, chart : Lock, id : Request \cup {0}]]
  BY DEF AllAnswerable, Typed, HostTyped, WireTyped
<1>1. CASE StartPacking(p) \/ Pack(p) \/ PackingFails(p) \/ PackingLeaves(p)
  <2>1. build[x].pc = "sending" => build'[x] = build[x]
    BY <1>0, <1>1 DEF StartPacking, Pack, PackingFails, PackingLeaves, NewArchive, BuildEnds
  <2>2. UNCHANGED <<pending, connected, toHost, toPeer, offer>>
    BY <1>1 DEF StartPacking, Pack, PackingFails, PackingLeaves, wireVars, offerVars
  <2> QED
    BY <1>0, <2>1, <2>2, AnswerableKept DEF HostStillHears, PeerStillHears
<1>2. CASE RecordOffer(p)
  <2>1. UNCHANGED <<connected, toHost, toPeer, offer>>
    BY <1>2 DEF RecordOffer, wireVars, offerVars
  <2>2. CASE Eligible(p, build[p].chart)
    <3>1. /\ build' = [build EXCEPT ![p].pc = "sending"]
          /\ pending' = [pending EXCEPT ![p] = build[p].id]
      BY <1>2, <2>2 DEF RecordOffer
    <3>2. connected[p]
      BY <2>2 DEF Eligible
    <3>3. CASE x = p
      BY <1>0, <2>1, <3>1, <3>2, <3>3 DEF Answerable
    <3>4. CASE x # p
      BY <1>0, <2>1, <3>1, <3>4, AnswerableKept DEF HostStillHears, PeerStillHears
    <3> QED BY <3>3, <3>4
  <2>3. CASE ~Eligible(p, build[p].chart)
    <3>1. pending' = pending /\ (x # p => build'[x] = build[x]) /\ build[p].pc = "offering"
      BY <1>0, <1>2, <2>3 DEF RecordOffer, BuildEnds
    <3> QED
      BY <1>0, <2>1, <3>1, AnswerableKept DEF HostStillHears, PeerStillHears
  <2> QED BY <2>2, <2>3
<1>3. CASE SendOffer(p)
  <2>1. UNCHANGED <<connected, toHost, offer>> /\ build[p].pc = "sending"
    BY <1>3 DEF SendOffer, offerVars
  <2>2. \A y \in Peer : y # p => build'[y] = build[y]
    BY <1>0, <1>3 DEF SendOffer, BuildEnds
  <2>3. CASE Link(p)
    <3> DEFINE m == [kind |-> "offer", id |-> build[p].id, accept |-> FALSE]
    <3>1. toPeer' = [toPeer EXCEPT ![p] = Append(toPeer[p], m)] /\ pending' = pending
      BY <1>3, <2>3 DEF SendOffer
    <3>2. m \in Message /\ m.kind = "offer" /\ m.id = build[p].id
      <4>1. build[p].id \in Request
        BY <1>0, <2>1 DEF Typed, Packaged
      <4> QED BY <4>1, MessagesTyped
    <3> HIDE DEF m
    <3>3. EndsWithOffer(toPeer'[p], build[p].id)
      BY <1>0, <3>1, <3>2, AddedKeeps
    <3>4. pending[p] \in {0, build[p].id}
      BY <2>1 DEF Kept
    <3>5. CASE x = p
      BY <1>0, <2>1, <3>1, <3>3, <3>4, <3>5 DEF Answerable
    <3>6. CASE x # p
      BY <1>0, <2>1, <2>2, <3>1, <3>6, AnswerableKept DEF HostStillHears, PeerStillHears
    <3> QED BY <3>5, <3>6
  <2>4. CASE ~Link(p)
    <3>1. pending' = [pending EXCEPT ![p] = 0] /\ toPeer' = toPeer
      BY <1>3, <2>4 DEF SendOffer
    <3>2. CASE x = p
      BY <1>0, <3>1, <3>2 DEF Answerable
    <3>3. CASE x # p
      BY <1>0, <2>1, <2>2, <3>1, <3>3, AnswerableKept DEF HostStillHears, PeerStillHears
    <3> QED BY <3>2, <3>3
  <2> QED BY <2>3, <2>4
<1> QED BY <1>1, <1>2, <1>3 DEF Packaging

LEMMA AnswerableParticipant ==
    ASSUME Typed, Kept, AllAnswerable, NEW p \in Peer, Participant(p)
    PROVE  AllAnswerable'
<1> SUFFICES ASSUME NEW x \in Peer PROVE Answerable(x)'
  BY DEF AllAnswerable
<1>0. /\ Answerable(x) /\ toPeer \in [Peer -> Seq(Message)] /\ toHost \in [Peer -> Seq(Message)]
      /\ offer \in [Peer -> Request \cup {0}] /\ room[p].chart \in Lock
  BY DEF AllAnswerable, Typed, WireTyped, OfferTyped, MatchTyped
<1>1. CASE HearSnapshot(p)
  <2>1. /\ toPeer[p] # <<>> /\ Head(toPeer[p]).kind = "snapshot" /\ Head(toPeer[p]) \in Message
        /\ toPeer' = [toPeer EXCEPT ![p] = Tail(@)]
    BY <1>0, <1>1, HeadTyped DEF HearSnapshot, Hear, Read
  <2>2. HostStillHears(x)
    <3> DEFINE c == Head(toPeer[p]).chart
    <3>1. \/ Tell(p, Status(TRUE)) \/ UNCHANGED toHost
          \/ c # NoChart /\ Tell(p, [kind |-> "request", chart |-> c])
      BY <1>1 DEF HearSnapshot
    <3>2. c # NoChart => c \in Chart
      BY <2>1, MessageFields DEF Lock
    <3> HIDE DEF c
    <3> QED BY <3>1, <3>2, Told, MessagesTyped DEF HostStillHears
  <2>3. PeerStillHears(x)
    BY <1>0, <2>1 DEF PeerStillHears
  <2>4. UNCHANGED <<pending, connected, build, offer>>
    BY <1>1 DEF HearSnapshot, hostVars, offerVars
  <2> QED BY <1>0, <2>2, <2>3, <2>4, AnswerableKept
<1>2. ASSUME Ask(p) \/ \E c \in Chart : Verify(p, c)
      PROVE  Answerable(x)'
  <2>1. UNCHANGED <<pending, connected, build, offer, toPeer>>
    BY <1>2 DEF Ask, Verify, hostVars, offerVars
  <2>2. HostStillHears(x)
    <3>1. CASE Ask(p)
      BY <1>0, <3>1, Told, MessagesTyped DEF Ask, Lock
    <3>2. ASSUME NEW c \in Chart, Verify(p, c) PROVE HostStillHears(x)
      <4>1. Status(room[p].chart = c) \in Message
        BY MessagesTyped
      <4> QED BY <3>2, <4>1, Told DEF Verify
    <3> QED BY <1>2, <3>1, <3>2
  <2> QED BY <1>0, <2>1, <2>2, AnswerableKept DEF PeerStillHears
<1>3. CASE HearOffer(p)
  <2> DEFINE r == Head(toPeer[p]).id
  <2>1. /\ toPeer[p] # <<>> /\ Head(toPeer[p]).kind = "offer" /\ r \in Request
        /\ toPeer' = [toPeer EXCEPT ![p] = Tail(@)]
    BY <1>0, <1>3, HeadTyped, MessageFields DEF HearOffer, Hear, Read
  <2>2. UNCHANGED <<pending, connected, build>>
    BY <1>3 DEF HearOffer, hostVars
  <2>3. Holds(toPeer[p], "offer")
    BY <1>0, <2>1 DEF Holds
  <2>4. offer'[p] = r \/ (Tell(p, Decision(r, TRUE)))
    BY <1>0, <1>3 DEF HearOffer
  <2>5. \A y \in Peer : HostStillHears(y)
    <3>1. Tell(p, Decision(r, TRUE)) \/ toHost' = toHost
      BY <1>3 DEF HearOffer
    <3> QED BY <2>1, <3>1, Told, MessagesTyped DEF HostStillHears
  <2>6. x # p => toPeer'[x] = toPeer[x] /\ offer'[x] = offer[x]
    BY <1>0, <1>3, <2>1 DEF HearOffer
  <2> HIDE DEF r
  <2>7. CASE x # p
    BY <1>0, <2>2, <2>5, <2>6, <2>7, AnswerableKept DEF PeerStillHears
  <2>8. CASE x = p /\ pending[p] # 0
    <3>1. /\ HoldsDecision(toHost[p], pending[p]) => HoldsDecision(toHost'[p], pending[p])
          /\ Holds(toHost[p], "gone") => Holds(toHost'[p], "gone")
      <4>1. CASE Tell(p, Decision(r, TRUE))
        <5> DEFINE yes == Decision(r, TRUE)
        <5>1. yes \in Message
          BY <2>1, MessagesTyped
        <5>2. toHost'[p] = toHost[p] \/ toHost'[p] = Append(toHost[p], yes)
          BY <1>0, <4>1 DEF Tell
        <5> HIDE DEF yes
        <5>3. CASE toHost'[p] = Append(toHost[p], yes)
          BY <1>0, <5>1, <5>3, AddedKeeps
        <5> QED BY <5>2, <5>3
      <4>2. CASE ~Tell(p, Decision(r, TRUE))
        BY <1>3, <4>2 DEF HearOffer, r
      <4> QED BY <4>1, <4>2
    <3>2. CASE EndsWithOffer(toPeer[p], pending[p])
      <4>1. \/ EndsWithOffer(toPeer'[p], pending[p])
            \/ r = pending[p] /\ ~Holds(toPeer'[p], "offer")
        BY <1>0, <2>1, <3>2, ReadKeeps DEF r
      <4>2. CASE r = pending[p] /\ ~Holds(toPeer'[p], "offer") /\ Tell(p, Decision(r, TRUE))
        <5>1. Decision(r, TRUE) \in Message /\ Decision(r, TRUE).kind = "decision"
                /\ Decision(r, TRUE).id = r
          BY <2>1, MessagesTyped DEF Decision
        <5>2. Holds(toHost[p], "gone") \/ toHost'[p] = Append(toHost[p], Decision(r, TRUE))
          BY <1>0, <2>8, <4>2, <5>1, Told DEF Answerable
        <5>3. Holds(toHost'[p], "gone") \/ HoldsDecision(toHost'[p], r)
          BY <1>0, <3>1, <5>1, <5>2, AddedKeeps
        <5> QED BY <1>0, <2>2, <2>8, <4>2, <5>3 DEF Answerable
      <4> QED BY <1>0, <2>2, <2>4, <2>8, <4>1, <4>2 DEF Answerable
    <3> QED BY <1>0, <2>2, <2>3, <2>8, <3>1, <3>2 DEF Answerable
  <2> QED BY <2>2, <2>7, <2>8 DEF Answerable
<1>4. ASSUME NEW accept \in BOOLEAN, NEW trust \in BOOLEAN, Decide(p, accept, trust)
      PROVE  Answerable(x)'
  <2> DEFINE m == Decision(offer[p], accept)
  <2>1. offer[p] \in Request /\ Tell(p, m) /\ offer' = [offer EXCEPT ![p] = 0]
    BY <1>0, <1>4 DEF Decide
  <2>2. m \in Message /\ m.kind = "decision" /\ m.id = offer[p]
    BY <2>1, MessagesTyped DEF Decision
  <2>3. UNCHANGED <<pending, connected, build, toPeer>>
    BY <1>4 DEF Decide, hostVars
  <2> HIDE DEF m
  <2>4. HostStillHears(x) /\ (connected[p] => Holds(toHost[p], "gone")
                                               \/ toHost'[p] = Append(toHost[p], m))
    BY <2>1, <2>2, Told
  <2>5. CASE x # p \/ offer[p] # pending[p]
    <3>1. CASE x # p
      BY <1>0, <2>1, <2>3, <2>4, <3>1, AnswerableKept DEF PeerStillHears
    <3>2. CASE x = p /\ offer[p] # pending[p]
      <4>1. /\ HoldsDecision(toHost[p], pending[p]) => HoldsDecision(toHost'[p], pending[p])
            /\ Holds(toHost[p], "gone") => Holds(toHost'[p], "gone")
        <5>1. toHost'[p] \in {toHost[p], Append(toHost[p], m)}
          BY <1>0, <2>1 DEF Tell
        <5>2. CASE toHost'[p] = Append(toHost[p], m)
          BY <1>0, <2>2, <5>2, AddedKeeps
        <5> QED BY <5>1, <5>2
      <4> QED BY <1>0, <2>3, <3>2, <4>1 DEF Answerable
    <3> QED BY <2>5, <3>1, <3>2
  <2>6. CASE x = p /\ offer[p] = pending[p]
    <3>1. connected[p]
      BY <1>0, <2>1, <2>6 DEF Answerable, Request
    <3>2. Holds(toHost'[p], "gone") \/ HoldsDecision(toHost'[p], offer[p])
      <4>1. CASE toHost'[p] = Append(toHost[p], m)
        BY <1>0, <2>2, <4>1, AddedKeeps
      <4>2. CASE toHost'[p] # Append(toHost[p], m)
        <5>1. Holds(toHost[p], "gone") /\ toHost'[p] = toHost[p]
          BY <1>0, <2>1, <2>4, <3>1, <4>2 DEF Tell
        <5> QED BY <5>1
      <4> QED BY <4>1, <4>2
    <3> QED BY <2>3, <2>6, <3>1, <3>2 DEF Answerable
  <2> QED BY <2>5, <2>6
<1> QED BY <1>1, <1>2, <1>3, <1>4 DEF Participant

LEMMA AnswerableNext == Typed /\ Kept /\ AllAnswerable /\ [Next]_vars => AllAnswerable'
<1> SUFFICES ASSUME Typed, Kept, AllAnswerable, [Next]_vars PROVE AllAnswerable'
  OBVIOUS
<1>0. /\ connected \in [Peer -> BOOLEAN] /\ chart \in Lock /\ verified \in [Peer -> BOOLEAN]
      /\ toPeer \in [Peer -> Seq(Message)] /\ toHost \in [Peer -> Seq(Message)]
      /\ \A x \in Peer : Answerable(x)
  BY DEF AllAnswerable, Typed, HostTyped, WireTyped
<1>1. ASSUME NEW c \in Chart, LockChart(c) PROVE AllAnswerable'
  <2>1. \A x \in Peer : PeerStillHears(x)
    BY <1>1, Broadcasted DEF LockChart, Lock
  <2>2. UNCHANGED <<pending, connected, build, offer, toHost>>
    BY <1>1 DEF LockChart, offerVars
  <2> QED BY <1>0, <2>1, <2>2, AnswerableKept DEF HostStillHears, AllAnswerable
<1>2. ASSUME UNCHANGED <<pending, connected, build, offer, toHost, toPeer>>
      PROVE  AllAnswerable'
  BY <1>0, <1>2 DEF AllAnswerable, Answerable
<1>3. ASSUME NEW p \in Peer, NEW r \in Request,
             Send(p, r) \/ Receive(p, r) \/ StreamBreaks(p, r) \/ BeginInstall(p, r)
      PROVE  AllAnswerable'
  BY <1>2, <1>3 DEF Send, Receive, StreamBreaks, BeginInstall, hostVars, wireVars, offerVars
<1>4. ASSUME NEW p \in Peer, NEW intact \in BOOLEAN, EndInstall(p, intact)
      PROVE  AllAnswerable'
  <2>1. UNCHANGED <<pending, connected, build, offer, toPeer>>
    BY <1>4 DEF EndInstall, hostVars, offerVars
  <2>2. toHost' = toHost \/ Tell(p, Status(TRUE))
    BY <1>4 DEF EndInstall
  <2>3. \A x \in Peer : HostStillHears(x)
    BY <2>2, Told, MessagesTyped DEF HostStillHears
  <2> QED BY <1>0, <2>1, <2>3, AnswerableKept DEF PeerStillHears, AllAnswerable
<1>5. ASSUME NEW p \in Peer, NEW n \in 0 .. Len(toHost[p]), NEW k \in 0 .. Len(toPeer[p]),
             LoseLink(p, n, k)
      PROVE  AllAnswerable'
  <2> DEFINE kept == SubSeq(toHost[p], 1, n)
  <2>1. UNCHANGED <<pending, connected, build, offer>>
    BY <1>5 DEF LoseLink, hostVars
  <2>2. /\ toHost'[p] = Append(kept, [kind |-> "gone"])
        /\ \A x \in Peer : x # p => toHost'[x] = toHost[x] /\ toPeer'[x] = toPeer[x]
    BY <1>0, <1>5 DEF LoseLink
  <2>3. kept \in Seq(Message) /\ [kind |-> "gone"] \in Message /\ [kind |-> "gone"].kind = "gone"
    BY <1>0, MessagesTyped
  <2>4. Holds(toHost'[p], "gone")
    <3> DEFINE lost == [kind |-> "gone"]
    <3>1. lost \in Message /\ lost.kind = "gone" /\ toHost'[p] = Append(kept, lost)
      BY <2>2, <2>3
    <3> HIDE DEF kept, lost
    <3> QED BY <2>3, <3>1, AddedKeeps
  <2> QED BY <1>0, <2>1, <2>2, <2>4 DEF AllAnswerable, Answerable
<1>6. ASSUME NEW p \in Peer, Resume(p) PROVE AllAnswerable'
  <2> DEFINE m == Snapshot(p, chart, verified[p])
  <2>1. UNCHANGED <<pending, build, offer, toHost>> /\ ~connected[p]
    BY <1>6 DEF Resume, hostVars, offerVars
  <2>2. /\ \A x \in Peer : x # p => toPeer'[x] = toPeer[x] /\ connected'[x] = connected[x]
        /\ pending[p] = 0
    BY <1>0, <1>6 DEF Resume, Answerable
  <2> QED BY <1>0, <2>1, <2>2 DEF AllAnswerable, Answerable
<1>7. CASE UNCHANGED vars
  BY <1>2, <1>7 DEF vars, hostVars, wireVars, offerVars
<1> QED
  BY <1>1, <1>3, <1>4, <1>5, <1>6, <1>7, AnswerableHost, AnswerablePackaging,
     AnswerableParticipant
  DEF Next, Archive, Transport

\* An offer the host holds can still be answered, or the loss of its participant
\* is about to be heard, so no participant's later requests are refused for ever
\* (app_state.rs, chart.transfer.request refuses while an offer is pending).
THEOREM OffersGetAnswers == Spec => []OfferIsAnswerable
<1>1. Init => AllAnswerable
  BY DEF Init, AllAnswerable, Answerable
<1>2. ASSUME AllAnswerable PROVE OfferIsAnswerable
  <2> SUFFICES ASSUME NEW p \in Peer, pending[p] # 0
               PROVE  \/ build[p].pc = "sending" \/ offer[p] = pending[p]
                      \/ Holds(toHost[p], "gone")
                      \/ \E i \in 1 .. Len(toPeer[p]) :
                            toPeer[p][i].kind = "offer" /\ toPeer[p][i].id = pending[p]
                      \/ \E i \in 1 .. Len(toHost[p]) :
                            toHost[p][i].kind = "decision" /\ toHost[p][i].id = pending[p]
    BY DEF OfferIsAnswerable
  <2> QED BY <1>2 DEF AllAnswerable, Answerable, EndsWithOffer, HoldsDecision
<1>3. Accounts => Kept
  BY DEF Accounts
<1> QED
  BY <1>1, <1>2, <1>3, TypedInit, TypedNext, AccountedInit, AccountedNext, AnswerableNext, PTL
  DEF Spec
================================================================================
