---------------------------- MODULE ChartTransfer ----------------------------
(***************************************************************************)
(* How participants come to have the chart the host has locked             *)
(* (app_state.rs, network.rs, transfer.rs).  A participant that sees a new *)
(* lock looks for the chart among its own, tells the host whether it has   *)
(* it, or asks for a transfer; the host packs an archive, offers it, and   *)
(* sends it when the participant has agreed; the participant receives it,  *)
(* checks it against the lock and installs it.                             *)
(*                                                                         *)
(* Host and participants exchange ordered messages; an archive travels on  *)
(* a stream of its own.  A lost connection keeps a prefix of what was on   *)
(* the way.  The room stays open and its participants are players; charts  *)
(* are custom ones of a room that allows transfers.  Bounds: MaxLocks,     *)
(* MaxRequest archives, MaxManual choices of users, MaxFaults faults.      *)
(***************************************************************************)
EXTENDS Integers, Sequences, FiniteSets

CONSTANTS
    Peer, Chart,
    Executable,    \* charts with scripts or executable content
    Zipped,        \* charts whose package at the host is one archive file
    Owned,         \* the charts each participant has from the start
    Troubled,      \* participants whose user intervenes and whose connection fails
    AutoRequest,   \* auto_request_chart_transfers
    MaxBuilds,     \* MAX_QUEUED_TRANSFER_BUILDS
    NoChart,
    MaxLocks, MaxRequest, MaxManual, MaxFaults

ASSUME TransferAssumption ==
    /\ Executable \subseteq Chart /\ Zipped \subseteq Chart /\ NoChart \notin Chart
    /\ Owned \in [Peer -> SUBSET Chart] /\ AutoRequest \in BOOLEAN
    /\ MaxBuilds \in Nat \ {0} /\ MaxRequest \in Nat
    /\ Troubled \subseteq Peer

Request == 1 .. MaxRequest
Lock == Chart \cup {NoChart}
BuildPc == {"idle", "queued", "packing", "offering", "sending"}
Message ==
    [kind : {"snapshot"}, chart : Lock, verified : BOOLEAN]
        \cup [kind : {"offer", "decision"}, id : Request, accept : BOOLEAN]
        \cup [kind : {"request"}, chart : Chart]
        \cup [kind : {"status"}, verified : BOOLEAN]
        \cup [kind : {"gone"}]

VARIABLES
    chart, verified,   \* the host's lock, and who is verified
    hearing,           \* the request handle_network_event is in the middle of
    active,            \* active_transfer_builds
    build,             \* the packaging task of a participant's request
    pending,           \* pending_transfer_offers: the archive offered, or 0
    archives,          \* the host's files under transfer-outgoing
    packages,          \* the host's own packages that still exist
    of,                \* the chart of each archive
    sending,           \* archives being sent
    connected, toHost, toPeer, streams,
    room,              \* participants: the snapshot they have
    have, scanned, requested, offer, trusted, authorized,
    arrived, installing,
    consented,         \* history: archives their participant agreed to
    forgotten,         \* history: archives whose path nobody holds any more
    budget

hostVars == <<chart, verified, hearing, active, build, pending, archives, packages, of, sending,
              forgotten>>
wireVars == <<connected, toHost, toPeer, streams>>
matchVars == <<room, scanned, requested>>
offerVars == <<offer, trusted, authorized, consented>>
installVars == <<have, arrived, installing>>
vars == <<hostVars, wireVars, matchVars, offerVars, installVars, budget>>

Limit == [lock |-> MaxLocks, manual |-> MaxManual, fault |-> MaxFaults, archive |-> MaxRequest]
Spend(kind) == budget[kind] < Limit[kind] /\ budget' = [budget EXCEPT ![kind] = @ + 1]
(* A package picked counts as a choice and as a fault.                     *)
SpendPick ==
    /\ \A kind \in {"manual", "fault"} : budget[kind] < Limit[kind]
    /\ budget' = [budget EXCEPT !["manual"] = @ + 1, !["fault"] = @ + 1]
Idle == [pc |-> "idle", chart |-> NoChart, id |-> 0]

Init ==
    /\ chart = NoChart /\ verified = [p \in Peer |-> FALSE]
    /\ hearing = [p \in Peer |-> NoChart] /\ forgotten = {}
    /\ active = {} /\ build = [p \in Peer |-> Idle] /\ pending = [p \in Peer |-> 0]
    /\ archives = {} /\ packages = Chart /\ of = [r \in Request |-> NoChart] /\ sending = {}
    /\ connected = [p \in Peer |-> TRUE]
    /\ toHost = [p \in Peer |-> <<>>] /\ toPeer = [p \in Peer |-> <<>>] /\ streams = {}
    /\ room = [p \in Peer |-> [chart |-> NoChart, verified |-> FALSE]]
    /\ scanned = [p \in Peer |-> NoChart] /\ requested = [p \in Peer |-> NoChart]
    /\ offer = [p \in Peer |-> 0] /\ trusted = [p \in Peer |-> FALSE]
    /\ authorized = [p \in Peer |-> {}] /\ consented = {}
    /\ have = Owned /\ arrived = [p \in Peer |-> {}] /\ installing = [p \in Peer |-> 0]
    /\ budget = [kind \in DOMAIN Limit |-> 0]

-----------------------------------------------------------------------------
(* The lock and what participants say of it.                               *)

Snapshot(p, c, ok) == [kind |-> "snapshot", chart |-> c, verified |-> ok]
Broadcast(c, ok) ==
    toPeer' = [p \in Peer |->
        IF connected[p] THEN Append(toPeer[p], Snapshot(p, c, ok[p])) ELSE toPeer[p]]

Link(p) == connected[p] /\ ~\E i \in 1 .. Len(toHost[p]) : toHost[p][i].kind = "gone"
Tell(p, message) ==
    toHost' = IF Link(p) THEN [toHost EXCEPT ![p] = Append(@, message)] ELSE toHost

LockChart(c) ==
    /\ c # chart /\ Spend("lock")
    /\ chart' = c /\ verified' = [p \in Peer |-> FALSE] /\ Broadcast(c, verified')
    /\ UNCHANGED <<hearing, active, build, pending, archives, packages, of, sending,
                   forgotten, connected, toHost, streams, matchVars, offerVars, installVars>>

(* The host handles one event at a time.                                   *)
Hears(p, kind) == /\ \A q \in Peer : hearing[q] = NoChart
                  /\ toHost[p] # <<>> /\ Head(toHost[p]).kind = kind

(* chart.status names no chart: it counts for whichever is locked.         *)
HearStatus(p) ==
    /\ Hears(p, "status")
    /\ verified' = [verified EXCEPT ![p] = Head(toHost[p]).verified]
    /\ toHost' = [toHost EXCEPT ![p] = Tail(@)] /\ Broadcast(chart, verified')
    /\ UNCHANGED <<chart, hearing, active, build, pending, archives, packages, of, sending,
                   forgotten, connected, streams, matchVars, offerVars, installVars, budget>>

(* try_auto_match_locked_chart, for every snapshot, once per lock: the     *)
(* charts known here are looked through, else a transfer is asked for.     *)
Hear(p, kind) == toPeer[p] # <<>> /\ Head(toPeer[p]).kind = kind
Read(p) == toPeer' = [toPeer EXCEPT ![p] = Tail(@)]
Status(ok) == [kind |-> "status", verified |-> ok]

(* A package here has the lock's canonical hash, computed or remembered.   *)
Matches(p, c) == c \in have[p]

HearSnapshot(p) ==
    /\ Hear(p, "snapshot") /\ Read(p)
    /\ LET snapshot == Head(toPeer[p])
           c == snapshot.chart
           unmatched == c # NoChart /\ ~snapshot.verified
           scan == unmatched /\ scanned[p] # c
           matched == scan /\ Matches(p, c)
           asks == unmatched /\ ~matched /\ AutoRequest /\ requested[p] # c
       IN /\ room' = [room EXCEPT ![p] = [chart |-> c, verified |-> snapshot.verified]]
          /\ scanned' = [scanned EXCEPT ![p] = IF scan THEN c ELSE @]
          /\ requested' = [requested EXCEPT ![p] = IF asks THEN c ELSE @]
          /\ IF matched THEN Tell(p, Status(TRUE))
             ELSE IF asks THEN Tell(p, [kind |-> "request", chart |-> c])
             ELSE UNCHANGED toHost
    /\ UNCHANGED <<hostVars, connected, streams, offerVars, installVars, budget>>

(* The user picks an installed package, or asks for a transfer.            *)
Verify(p, c) ==
    /\ p \in Troubled /\ room[p].chart # NoChart /\ SpendPick
    /\ LET ok == room[p].chart = c IN
       /\ have' = [have EXCEPT ![p] = IF ok THEN @ \cup {c} ELSE @]
       /\ Tell(p, Status(ok))
    /\ UNCHANGED <<hostVars, connected, toPeer, streams, matchVars, offerVars, arrived,
                   installing>>

Ask(p) ==
    /\ p \in Troubled /\ room[p].chart # NoChart /\ ~room[p].verified /\ Spend("manual")
    /\ Tell(p, [kind |-> "request", chart |-> room[p].chart])
    /\ UNCHANGED <<hostVars, connected, toPeer, streams, matchVars, offerVars, installVars>>

-----------------------------------------------------------------------------
(* The host packs and offers.                                              *)

(* transferable_chart_for_participant                                      *)
Eligible(p, c) == connected[p] /\ ~verified[p] /\ chart = c

(* Mutant of QueueHasRoom: one request of each participant is taken.       *)
RoomForOneEach(p) == p \notin active

QueueHasRoom(p) == p \notin active /\ Cardinality(active) < MaxBuilds

(* The offers are looked through under one lock, the packaging queue is    *)
(* entered under another: an offer made in between is not seen.            *)
HearRequest(p) ==
    /\ Hears(p, "request") /\ toHost' = [toHost EXCEPT ![p] = Tail(@)]
    /\ LET c == Head(toHost[p]).chart IN
       hearing' = IF Eligible(p, c) /\ pending[p] = 0
                  THEN [hearing EXCEPT ![p] = c] ELSE hearing
    /\ UNCHANGED <<chart, verified, active, build, pending, archives, packages, of, sending,
                   forgotten, connected, toPeer, streams, matchVars, offerVars, installVars,
                   budget>>

EnterQueue(p) ==
    /\ hearing[p] # NoChart /\ hearing' = [hearing EXCEPT ![p] = NoChart]
    /\ IF QueueHasRoom(p)
       THEN /\ active' = active \cup {p}
            /\ build' = [build EXCEPT ![p] = [pc |-> "queued", chart |-> hearing[p], id |-> 0]]
       ELSE UNCHANGED <<active, build>>
    /\ UNCHANGED <<chart, verified, pending, archives, packages, of, sending, forgotten,
                   wireVars, matchVars, offerVars, installVars, budget>>

BuildEnds(p) ==
    /\ build' = [build EXCEPT ![p] = Idle]
    /\ active' = active \ {p}

(* The path of the archive is the host's package itself when that is one   *)
(* file: archive_chart_directory returns it as it is.                      *)
Delete(r) ==
    IF r # 0 /\ of[r] \in Zipped
    THEN packages' = packages \ {of[r]} /\ UNCHANGED archives
    ELSE archives' = archives \ {r} /\ UNCHANGED packages

StartPacking(p) ==
    /\ build[p].pc = "queued" /\ \A q \in Peer : build[q].pc \in {"idle", "queued"}
    /\ IF Eligible(p, build[p].chart)
       THEN build' = [build EXCEPT ![p].pc = "packing"] /\ UNCHANGED active
       ELSE BuildEnds(p)
    /\ UNCHANGED <<chart, verified, hearing, pending, archives, packages, of, sending,
                   forgotten, wireVars, matchVars, offerVars, installVars, budget>>

(* A package that is one file is offered as it is; a directory is packed.  *)
NewArchive(p, r) ==
    /\ build[p].pc = "packing" /\ build[p].chart \in packages
    /\ Spend("archive") /\ r = budget'.archive
    /\ of' = [of EXCEPT ![r] = build[p].chart]
    /\ archives' = IF build[p].chart \in Zipped THEN archives ELSE archives \cup {r}

Pack(p) ==
    /\ \E r \in Request :
        NewArchive(p, r) /\ build' = [build EXCEPT ![p].pc = "offering", ![p].id = r]
    /\ UNCHANGED <<chart, verified, hearing, active, pending, packages, sending, forgotten,
                   wireVars, matchVars, offerVars, installVars>>

(* Nothing was written: the package is gone, or what was written was found *)
(* too large and removed.                                                  *)
PackingFails(p) ==
    /\ build[p].pc = "packing" /\ BuildEnds(p)
    /\ UNCHANGED <<chart, verified, hearing, pending, archives, packages, of, sending,
                   forgotten, wireVars, matchVars, offerVars, installVars, budget>>

(* Too many or too large files, or an error of reading or writing, leave   *)
(* what was written so far; a package that cannot be offered is left       *)
(* packed.  Nothing removes either before the room is left.                *)
PackingLeaves(p) ==
    /\ build[p].pc = "packing" /\ BuildEnds(p)
    /\ \E r \in Request : NewArchive(p, r) /\ forgotten' = forgotten \cup (archives' \cap {r})
    /\ UNCHANGED <<chart, verified, hearing, pending, packages, sending, wireVars,
                   matchVars, offerVars, installVars>>

(* The offer is recorded before it is sent, if the request still stands,   *)
(* in the place of another that EnterQueue did not see.                    *)
RecordOffer(p) ==
    /\ build[p].pc = "offering"
    /\ IF Eligible(p, build[p].chart)
       THEN /\ pending' = [pending EXCEPT ![p] = build[p].id]
            /\ forgotten' = forgotten \cup (archives \cap {pending[p]})
            /\ build' = [build EXCEPT ![p].pc = "sending"]
            /\ UNCHANGED <<active, archives, packages>>
       ELSE BuildEnds(p) /\ Delete(build[p].id) /\ UNCHANGED <<pending, forgotten>>
    /\ UNCHANGED <<chart, verified, hearing, of, sending, wireVars, matchVars, offerVars,
                   installVars, budget>>

SendOffer(p) ==
    /\ build[p].pc = "sending" /\ BuildEnds(p)
    /\ IF Link(p)
       THEN /\ toPeer' = [toPeer EXCEPT ![p] =
                   Append(@, [kind |-> "offer", id |-> build[p].id, accept |-> FALSE])]
            /\ UNCHANGED <<pending, archives, packages>>
       ELSE /\ pending' = [pending EXCEPT ![p] = 0] /\ Delete(build[p].id)
            /\ UNCHANGED toPeer
    /\ UNCHANGED <<chart, verified, hearing, of, sending, forgotten, connected, toHost,
                   streams, matchVars, offerVars, installVars, budget>>

-----------------------------------------------------------------------------
(* The participant decides.                                                *)

Decision(r, accept) == [kind |-> "decision", id |-> r, accept |-> accept]
Authorize(p, r) ==
    /\ authorized' = [authorized EXCEPT ![p] = @ \cup {r}]
    /\ consented' = consented \cup {r}

(* Mutant of CoveredByTrust: trust of the room covers executable content.  *)
TrustedAnyway(p, r) == trusted[p]

CoveredByTrust(p, r) == trusted[p] /\ of[r] \notin Executable

HearOffer(p) ==
    /\ Hear(p, "offer") /\ Read(p)
    /\ LET r == Head(toPeer[p]).id IN
       IF CoveredByTrust(p, r)
       THEN /\ offer' = [offer EXCEPT ![p] = 0]
            /\ authorized' = [authorized EXCEPT ![p] = @ \cup {r}]
            /\ consented' = IF of[r] \in Executable THEN consented ELSE consented \cup {r}
            /\ Tell(p, Decision(r, TRUE))
       ELSE /\ offer' = [offer EXCEPT ![p] = r]
            /\ UNCHANGED <<authorized, consented, toHost>>
    /\ UNCHANGED <<hostVars, connected, streams, matchVars, trusted, installVars, budget>>

(* decide_chart_transfer; executable content is confirmed with the accept, *)
(* and only an accepted chart without it can be trusted.                   *)
Decide(p, accept, trust) ==
    /\ offer[p] # 0
    /\ trust => accept /\ of[offer[p]] \notin Executable
    /\ offer' = [offer EXCEPT ![p] = 0]
    /\ IF accept THEN Authorize(p, offer[p]) ELSE UNCHANGED <<authorized, consented>>
    /\ trusted' = [trusted EXCEPT ![p] = @ \/ trust]
    /\ Tell(p, Decision(offer[p], accept))
    /\ UNCHANGED <<hostVars, connected, toPeer, streams, matchVars, installVars, budget>>

HearDecision(p) ==
    /\ Hears(p, "decision") /\ toHost' = [toHost EXCEPT ![p] = Tail(@)]
    /\ LET r == Head(toHost[p]).id IN
       IF pending[p] # r THEN UNCHANGED <<pending, sending, archives, packages>>
       ELSE /\ pending' = [pending EXCEPT ![p] = 0]
            /\ IF Head(toHost[p]).accept
               THEN sending' = sending \cup {<<p, r>>} /\ UNCHANGED <<archives, packages>>
               ELSE Delete(r) /\ UNCHANGED sending
    /\ UNCHANGED <<chart, verified, hearing, active, build, of, forgotten, connected, toPeer,
                   streams, matchVars, offerVars, installVars, budget>>

-----------------------------------------------------------------------------
(* The archive: send_chart_transfer, the receiver of network.rs, and       *)
(* install_received_chart_transfer.                                        *)

(* Sent or not, the archive is removed afterwards.                         *)
Send(p, r) ==
    /\ <<p, r>> \in sending /\ sending' = sending \ {<<p, r>>} /\ Delete(r)
    /\ streams' = IF Link(p) /\ of[r] \in packages THEN streams \cup {<<p, r>>} ELSE streams
    /\ UNCHANGED <<chart, verified, hearing, active, build, pending, of, forgotten, connected,
                   toHost, toPeer, matchVars, offerVars, installVars, budget>>

(* The authorization is used up by the stream, whole or broken.            *)
Receive(p, r) ==
    /\ <<p, r>> \in streams /\ streams' = streams \ {<<p, r>>}
    /\ authorized' = [authorized EXCEPT ![p] = @ \ {r}]
    /\ arrived' = IF r \in authorized[p] THEN [arrived EXCEPT ![p] = @ \cup {r}] ELSE arrived
    /\ UNCHANGED <<hostVars, connected, toHost, toPeer, matchVars, offer, trusted, consented,
                   have, installing, budget>>

StreamBreaks(p, r) ==
    /\ p \in Troubled /\ Spend("fault")
    /\ <<p, r>> \in streams /\ streams' = streams \ {<<p, r>>}
    /\ authorized' = [authorized EXCEPT ![p] = @ \ {r}]
    /\ UNCHANGED <<hostVars, connected, toHost, toPeer, matchVars, offer, trusted, consented,
                   installVars>>

(* One installation at a time, of the chart that is locked as it begins.   *)
BeginInstall(p, r) ==
    /\ r \in arrived[p] /\ installing[p] = 0
    /\ arrived' = [arrived EXCEPT ![p] = @ \ {r}]
    /\ installing' = [installing EXCEPT ![p] =
           IF room[p].chart # NoChart /\ room[p].chart = of[r] THEN r ELSE 0]
    /\ UNCHANGED <<hostVars, wireVars, matchVars, offerVars, have, budget>>

EndInstall(p, intact) ==
    /\ installing[p] # 0 /\ IF intact THEN UNCHANGED budget ELSE Spend("fault")
    /\ installing' = [installing EXCEPT ![p] = 0]
    /\ IF intact
       THEN /\ have' = [have EXCEPT ![p] = @ \cup {of[installing[p]]}]
            /\ Tell(p, Status(TRUE))
       ELSE UNCHANGED <<have, toHost>>
    /\ UNCHANGED <<hostVars, connected, toPeer, streams, matchVars, offerVars, arrived>>

-----------------------------------------------------------------------------
(* A connection is lost: a prefix of each direction has been read, the     *)
(* streams end, and the participant's reader drops its authorizations.     *)
LoseLink(p, n, m) ==
    /\ p \in Troubled /\ Link(p) /\ Spend("fault")
    /\ n \in 0 .. Len(toHost[p]) /\ m \in 0 .. Len(toPeer[p])
    /\ toHost' = [toHost EXCEPT ![p] = Append(SubSeq(@, 1, n), [kind |-> "gone"])]
    /\ toPeer' = [toPeer EXCEPT ![p] = SubSeq(@, 1, m)]
    /\ streams' = {s \in streams : s[1] # p}
    /\ authorized' = [authorized EXCEPT ![p] = {}]
    /\ UNCHANGED <<hostVars, connected, matchVars, offer, trusted, consented, installVars>>

(* Mutant of HearLoss: the offer of a lost participant stays.              *)
HearLossOnly(p) ==
    /\ Hears(p, "gone")
    /\ connected' = [connected EXCEPT ![p] = FALSE] /\ toHost' = [toHost EXCEPT ![p] = <<>>]
    /\ UNCHANGED <<hostVars, toPeer, streams, matchVars, offerVars, installVars, budget>>
(* Mutant of HearLoss: the offer goes, its archive stays.                  *)
HearLossAndLitter(p) ==
    /\ Hears(p, "gone")
    /\ connected' = [connected EXCEPT ![p] = FALSE] /\ toHost' = [toHost EXCEPT ![p] = <<>>]
    /\ pending' = [pending EXCEPT ![p] = 0]
    /\ UNCHANGED <<chart, verified, hearing, active, build, archives, packages, of, sending,
                   forgotten, toPeer, streams, matchVars, offerVars, installVars, budget>>

HearLoss(p) ==
    /\ Hears(p, "gone")
    /\ connected' = [connected EXCEPT ![p] = FALSE] /\ toHost' = [toHost EXCEPT ![p] = <<>>]
    /\ pending' = [pending EXCEPT ![p] = 0]
    /\ Delete(pending[p])
    /\ UNCHANGED <<chart, verified, hearing, active, build, of, sending, forgotten, toPeer,
                   streams, matchVars, offerVars, installVars, budget>>

Resume(p) ==
    /\ ~connected[p] /\ connected' = [connected EXCEPT ![p] = TRUE]
    /\ toPeer' = [toPeer EXCEPT ![p] = Append(@, Snapshot(p, chart, verified[p]))]
    /\ UNCHANGED <<hostVars, toHost, streams, matchVars, offerVars, installVars, budget>>

-----------------------------------------------------------------------------
Packaging(p) ==
    \/ StartPacking(p) \/ Pack(p) \/ PackingFails(p) \/ PackingLeaves(p)
    \/ RecordOffer(p) \/ SendOffer(p)
HostHears(p) ==
    \/ HearStatus(p) \/ HearRequest(p) \/ EnterQueue(p) \/ HearDecision(p) \/ HearLoss(p)
Participant(p) ==
    \/ HearSnapshot(p) \/ HearOffer(p) \/ Ask(p)
    \/ \E c \in Chart : Verify(p, c)
    \/ \E accept, trust \in BOOLEAN : Decide(p, accept, trust)
Archive(p) ==
    \/ \E r \in Request : Send(p, r) \/ Receive(p, r) \/ StreamBreaks(p, r) \/ BeginInstall(p, r)
    \/ \E intact \in BOOLEAN : EndInstall(p, intact)
Transport(p) ==
    \/ \E n \in 0 .. Len(toHost[p]), m \in 0 .. Len(toPeer[p]) : LoseLink(p, n, m)
    \/ Resume(p)

Next ==
    \/ \E c \in Chart : LockChart(c)
    \/ \E p \in Peer : Packaging(p) \/ HostHears(p) \/ Participant(p) \/ Archive(p) \/ Transport(p)
Spec == Init /\ [][Next]_vars

-----------------------------------------------------------------------------
(* Types, and the limits of the packaging queue: at most MaxBuilds         *)
(* requests, one of them being packed.                                     *)
TypeOK ==
    /\ chart \in Lock /\ verified \in [Peer -> BOOLEAN]
    /\ hearing \in [Peer -> Lock] /\ forgotten \subseteq Request
    /\ active \subseteq Peer /\ Cardinality(active) <= MaxBuilds
    /\ build \in [Peer -> [pc : BuildPc, chart : Lock, id : Request \cup {0}]]
    /\ Cardinality({p \in Peer : build[p].pc \notin {"idle", "queued"}}) <= 1
    /\ pending \in [Peer -> Request \cup {0}] /\ archives \subseteq Request
    /\ packages \subseteq Chart /\ of \in [Request -> Lock] /\ sending \subseteq Peer \X Request
    /\ connected \in [Peer -> BOOLEAN] /\ streams \subseteq Peer \X Request
    /\ \A p \in Peer :
          \A q \in {toHost[p], toPeer[p]} : \A i \in 1 .. Len(q) : q[i] \in Message
    /\ room \in [Peer -> [chart : Lock, verified : BOOLEAN]]
    /\ have \in [Peer -> SUBSET Chart] /\ {scanned, requested} \subseteq [Peer -> Lock]
    /\ offer \in [Peer -> Request \cup {0}] /\ trusted \in [Peer -> BOOLEAN]
    /\ authorized \in [Peer -> SUBSET Request] /\ consented \subseteq Request
    /\ arrived \in [Peer -> SUBSET Request] /\ installing \in [Peer -> Request \cup {0}]

(* An archive that is about to be offered, is offered or is being sent.    *)
Held(r) ==
    \E p \in Peer : \/ build[p].pc = "offering" /\ build[p].id = r
                    \/ pending[p] = r
                    \/ <<p, r>> \in sending

(* Through declines, lost connections, locks that changed and requests     *)
(* that overtook an offer, an archive that somebody holds exists, so none  *)
(* is removed by one of two that may use it, and one that exists is held,  *)
(* but for those a failed packing or a replaced offer forgot.              *)
ArchivesAccounted ==
    \A r \in Request : of[r] \notin Zipped => (Held(r) <=> r \in archives \ forgotten)

(* An offer the host still holds can still be answered: it is on its way,  *)
(* with the participant, answered, or the loss of the participant is about *)
(* to be heard.  Otherwise every later request would be refused.           *)
Holds(q, kind) == \E i \in 1 .. Len(q) : q[i].kind = kind
OfferIsAnswerable ==
    \A p \in Peer : pending[p] # 0 =>
        \/ build[p].pc = "sending" \/ offer[p] = pending[p] \/ Holds(toHost[p], "gone")
        \/ \E i \in 1 .. Len(toPeer[p]) :
              toPeer[p][i].kind = "offer" /\ toPeer[p][i].id = pending[p]
        \/ \E i \in 1 .. Len(toHost[p]) :
              toHost[p][i].kind = "decision" /\ toHost[p][i].id = pending[p]

(* No archive is received or installed without the participant's consent   *)
(* to that archive; trusting the room never covers executable content.     *)
ConsentBeforeBytes ==
    \A p \in Peer : \A r \in authorized[p] \cup arrived[p] \cup {installing[p]} :
        r # 0 => r \in consented

(* "stale verification cannot ready a participant for a different          *)
(* assignment" (room.rs:229): whoever is verified has the locked chart.    *)
VerifiedHasLock == \A p \in Peer : verified[p] => chart \in have[p]

(* "a bounded archive produced from the host's selected directory" or "the *)
(* original archive" is transferred (docs/mod-guide.md:67); the host's own *)
(* package survives that.  The code does not keep this.                    *)
HostPackageKept == packages = Chart
===============================================================================
