------------------------------- MODULE Paths -------------------------------
(***************************************************************************)
(* Path validation and connection migration at one endpoint, a client or a *)
(* server: quiche/src/path.rs with the code of lib.rs that drives it       *)
(* (recv, recv_single, get_or_create_recv_path_id, get_send_path_id,       *)
(* set_active_path, on_peer_migrated, on_timeout, probe_path, migrate,     *)
(* retire_dcid, NEW_CONNECTION_ID, PATH_CHALLENGE and PATH_RESPONSE).      *)
(*                                                                         *)
(* A four-tuple is an element of Addrs, a path identifier a slot of the    *)
(* slab.  Of the destination connection IDs (module Cids) only their       *)
(* number and whether a path has one is kept.  The bytes a server may send *)
(* to an unverified address are one of four levels: less than              *)
(* MIN_PROBING_SIZE, less than a packet with PATH_CHALLENGE takes, less    *)
(* than MIN_CLIENT_INITIAL_LEN, and enough for a full-size challenge.      *)
(* Connection IDs have at least four bytes: each datagram then allows one  *)
(* challenge and one response.  Challenges of one size on one path count   *)
(* once.                                                                   *)
(***************************************************************************)
EXTENDS Integers, FiniteSets

CONSTANTS
    Addrs,          \* four-tuples
    FirstAddr,      \* the four-tuple of the handshake
    MaxPaths,       \* max_concurrent_paths, the active_conn_id_limit
    MaxSpare,       \* bound: DCIDs that no path uses
    MaxTimeouts     \* MAX_PROBING_TIMEOUTS

ASSUME PathAssumption ==
    /\ FirstAddr \in Addrs /\ "none" \notin Addrs
    /\ MaxPaths \in Nat \ {0, 1} /\ MaxSpare \in Nat /\ MaxTimeouts \in Nat \ {0}

VARIABLES
    is_server,
    paths,       \* the slab of PathMap
    spare,       \* number of DCIDs not linked to a path
    closed,      \* the connection was closed
    migrated,    \* history: the four-tuple of the last PeerMigrated event
    limbo        \* history: a path was marked active and not active()

vars == <<is_server, paths, spare, closed, migrated, limbo>>

Pids == 0 .. MaxPaths - 1
NoAddr == "none"
NoPid == -1
SetMin(S) == CHOOSE x \in S : \A y \in S : x <= y

(* PathState, in its order                                                 *)
Failed == 0
Unknown == 1
Validating == 2
ValidatingMTU == 3
Validated == 4

Tiny == 0       \* max_send_bytes < MIN_PROBING_SIZE
Scant == 1      \* ... < header, PATH_CHALLENGE and AEAD tag
Small == 2      \* ... < MIN_CLIENT_INITIAL_LEN
Full == 3
Sizes == {Small, Full}

(* Path::new                                                               *)
NewPath(a, dcid, budget) ==
    [addr |-> a, state |-> Unknown, active |-> FALSE, dcid |-> dcid,
     flying |-> {}, fullSize |-> FALSE, probing_lost |-> 0,
     challenged |-> FALSE, requested |-> FALSE, migrating |-> FALSE,
     verified |-> FALSE, budget |-> budget]

EmptySlot == NewPath(NoAddr, FALSE, Tiny)

Slots(ps) == {p \in Pids : ps[p].addr # NoAddr}
PidOf(ps, a) == {p \in Slots(ps) : ps[p].addr = a}

----------------------------------------------------------------------------
(* Path                                                                    *)

Working(p) == p.state > Failed
IsActive(p) == p.active /\ Working(p) /\ p.dcid
IsUsable(p) == IsActive(p) \/ (p.state = Validated /\ p.dcid)
IsUnused(p) == ~IsActive(p) /\ ~p.dcid
UnderValidation(p) == p.state \in {Validating, ValidatingMTU}
ProbingRequired(p) == p.challenged \/ p.requested

Promote(p, s) == [p EXCEPT !.state = IF @ < s THEN s ELSE @]
RequestValidation(p) == [p EXCEPT !.requested = TRUE]

(* add_challenge_sent: a path that failed is under validation again.       *)
ChallengeSent(p, size) ==
    [Promote(p, Validating) EXCEPT !.requested = FALSE, !.flying = @ \cup {size}]

(* Bytes left to a validated address: too few to probe, or not.            *)
Verified(budget) == IF budget = Tiny THEN Tiny ELSE Full

(* Faulty variant: a path whose MTU is not validated is not probed again.  *)
ResponseNotFollowed(p, size) ==
    LET q == [Promote(p, ValidatingMTU) EXCEPT
                !.verified = TRUE, !.budget = Verified(@), !.probing_lost = 0,
                !.flying = @ \ {size},
                !.fullSize = @ \/ size = Full]
    IN  IF q.state = ValidatingMTU /\ q.fullSize THEN Promote(q, Validated) ELSE q

(* Path::on_response_received: the path is validated once a full-size      *)
(* challenge was answered.                                                 *)
ResponseReceived(p, size) ==
    LET q == [Promote(p, ValidatingMTU) EXCEPT
                !.verified = TRUE, !.budget = Verified(@), !.probing_lost = 0,
                !.flying = @ \ {size},
                !.fullSize = @ \/ size = Full]
    IN  CASE q.state = ValidatingMTU /\ q.fullSize -> Promote(q, Validated)
          [] q.state = ValidatingMTU /\ ~q.fullSize -> RequestValidation(q)
          [] OTHER -> q

FailedValidation(p) == [p EXCEPT !.state = Failed, !.active = FALSE]

(* Path::on_loss_detection_timeout: every challenge in flight is lost.     *)
(* The loss counts when it is the first, or a round trip separates it from *)
(* the last one (left open here); only whether the count reached           *)
(* MaxTimeouts matters.                                                    *)
LossTimeout(p, counts) ==
    LET lost == IF counts /\ p.probing_lost < MaxTimeouts
                THEN p.probing_lost + 1 ELSE p.probing_lost
        q == [p EXCEPT !.flying = {}, !.probing_lost = lost]
    IN  CASE p.flying = {} -> p
          [] p.flying # {} /\ (lost >= MaxTimeouts \/ (is_server /\ p.budget = Tiny)) ->
                FailedValidation(q)
          [] OTHER -> RequestValidation(q)

(* The bytes left to p once a packet was sent.  One to an address that is  *)
(* not validated is padded to all that the server may send there; of a     *)
(* validated one only matters whether less than MIN_PROBING_SIZE is left.  *)
Held(p) == is_server /\ ~p.verified
Spent(p) ==
    IF ~Held(p) THEN {Tiny, p.budget}
    ELSE IF p.budget < Full THEN {Tiny} ELSE Tiny .. Full

----------------------------------------------------------------------------
(* PathMap                                                                 *)

(* Every step notes whether it leaves a path marked active that active()   *)
(* denies: it has failed, or has lost its DCID.                            *)
Noted == limbo' = (limbo \/ \E p \in Pids : paths'[p].active /\ ~IsActive(paths'[p]))

ActivePids(ps) == {p \in Slots(ps) : IsActive(ps[p])}

(* get_active_path_id                                                      *)
ActivePid(ps) == IF ActivePids(ps) = {} THEN NoPid ELSE SetMin(ActivePids(ps))

(* make_room_for_new_path: the slots the new path may take, if any.        *)
Unused(ps) == {p \in Slots(ps) : IsUnused(ps[p])}
Room(ps) ==
    CASE Slots(ps) # Pids -> {SetMin(Pids \ Slots(ps))}
      [] Slots(ps) = Pids /\ Unused(ps) # {} -> {SetMin(Unused(ps))}
      [] OTHER -> {}

(* Faulty variant: only a validation that ends is reported.                *)
NoMigrationEvent(ps, pid, m) == m

(* The four-tuple of the PeerMigrated event of set_active_path, if any.    *)
MigrationEvent(ps, pid, m) ==
    IF is_server /\ ps[pid].state = Validated THEN ps[pid].addr ELSE m

(* Faulty variant: the path that was active stays so.                      *)
SetActiveToo(ps, pid) == [ps EXCEPT ![pid].active = TRUE]

(* PathMap::set_active_path                                                *)
SetActive(ps, pid) ==
    LET old == ActivePid(ps)
        cleared == IF old = NoPid THEN ps ELSE [ps EXCEPT ![old].active = FALSE]
        p == [cleared[pid] EXCEPT !.active = TRUE]
        q == IF is_server /\ p.state # Validated THEN [p EXCEPT !.migrating = TRUE] ELSE p
    IN  [cleared EXCEPT ![pid] =
            IF is_server /\ p.state # Validated /\ ~UnderValidation(p)
            THEN RequestValidation(q) ELSE q]

(* find_candidate_path                                                     *)
Candidates(ps) == {p \in Slots(ps) : IsUsable(ps[p])}

----------------------------------------------------------------------------
(* Received packets                                                        *)

(* The paths without a DCID get the spare ones, in their order.            *)
NoDcid(ps) == {p \in Slots(ps) : ~ps[p].dcid}
GetsDcid(ps, n) == {p \in NoDcid(ps) : Cardinality({q \in NoDcid(ps) : q < p}) < n}
Assigned(ps, n) == [p \in Pids |-> IF p \in GetsDcid(ps, n)
                                   THEN [ps[p] EXCEPT !.dcid = TRUE] ELSE ps[p]]
SpareLeft(ps, n) == n - Cardinality(GetsDcid(ps, n))

(* recv and get_or_create_recv_path_id: the slab once the packet on a is   *)
(* attributed to a path.  A server counts the bytes it got from an         *)
(* unverified address and probes a new one; a client drops a packet from   *)
(* an unknown address.                                                     *)
Attributed(a, pid, budget) ==
    IF PidOf(paths, a) # {}
      THEN [paths EXCEPT ![pid].budget = budget]
      ELSE [paths EXCEPT ![pid] = RequestValidation(NewPath(a, FALSE, budget))]

(* Did the peer migrate?                                                   *)
Follows(ps, pid, probing, newest) ==
    ~probing /\ newest /\ is_server /\ pid # ActivePid(ps)

(* What ends recv_single, ps being the paths once the frames of a packet   *)
(* on path pid are processed and n the spare DCIDs: the paths without DCID *)
(* get one, and a server follows a peer that sent its newest non-probing   *)
(* packet on another path (on_peer_migrated), where it reuses the DCID of  *)
(* the old path if there is no other.                                      *)
Finish(ps, n, pid, probing, newest, m) ==
    LET assigned == Assigned(ps, n)
        old == ActivePid(assigned)
        moved == SetActive(assigned, pid)
    IN  /\ CASE ~probing /\ old = NoPid ->               \* InvalidState
                   /\ closed' = TRUE
                   /\ UNCHANGED <<paths, spare, migrated>>
             [] Follows(assigned, pid, probing, newest) /\ old # NoPid ->
                   /\ paths' = [moved EXCEPT ![pid].dcid = TRUE]
                   /\ spare' = SpareLeft(ps, n)
                   /\ migrated' = MigrationEvent(assigned, pid, m)
                   /\ UNCHANGED closed
             [] OTHER ->
                   /\ paths' = assigned
                   /\ spare' = SpareLeft(ps, n)
                   /\ migrated' = m
                   /\ UNCHANGED closed
        /\ Noted

(* A packet may come on a: the path it lands on, and the bytes it allows.  *)
Landing(a) ==
    IF PidOf(paths, a) # {}
      THEN PidOf(paths, a)
      ELSE IF is_server THEN Room(paths) ELSE {}

Credits(a, pid) ==
    IF PidOf(paths, a) = {} THEN Sizes
    ELSE IF is_server /\ ~paths[pid].verified
         THEN {b \in Sizes : b >= paths[pid].budget}
         ELSE {paths[pid].budget}

(* A packet without path frames                                            *)
RecvOther ==
    /\ ~closed
    /\ \E a \in Addrs, newest \in BOOLEAN : \E pid \in Landing(a) :
       \E b \in Credits(a, pid) :
            /\ Finish(Attributed(a, pid, b), spare, pid, FALSE, newest, migrated)
            /\ UNCHANGED is_server

(* Path::on_challenge_received                                             *)
RecvPathChallenge ==
    /\ ~closed
    /\ \E a \in Addrs : \E pid \in Landing(a) : \E b \in Credits(a, pid) :
            /\ Finish([Attributed(a, pid, b) EXCEPT ![pid].challenged = TRUE],
                      spare, pid, TRUE, FALSE, migrated)
            /\ UNCHANGED is_server

(* PathMap::on_response_received: the answer to a challenge of path from,  *)
(* on a path the endpoint knows.                                           *)
RecvPathResponse ==
    /\ ~closed
    /\ \E a \in Addrs, from \in Slots(paths) :
       \E pid \in PidOf(paths, a), size \in paths[from].flying :
       \E b \in Credits(a, pid) :
        LET ps == Attributed(a, pid, b)
            p == ResponseReceived(ps[from], size)
            done == ps[from].state < Validated /\ p.state = Validated
            told == done /\ ps[from].migrating /\ from = ActivePid(ps)
        IN  IF ActivePid(ps) = NoPid
              THEN /\ closed' = TRUE                  \* InvalidState
                   /\ UNCHANGED <<paths, spare, migrated, limbo, is_server>>
              ELSE /\ Finish([ps EXCEPT ![from] =
                                IF done THEN [p EXCEPT !.migrating = FALSE] ELSE p],
                             spare, pid, TRUE, FALSE,
                             IF told THEN ps[from].addr ELSE migrated)
                   /\ UNCHANGED is_server

(* NEW_CONNECTION_ID: retires the DCIDs of the paths lost and gone spare   *)
(* ones.  The paths switch to a free DCID, in the order of the DCIDs they  *)
(* had, as long as there is one.                                           *)
RecvNewConnectionId ==
    /\ ~closed
    /\ \E lost \in SUBSET {p \in Slots(paths) : paths[p].dcid}, gone \in 0 .. spare :
        LET free == spare - gone + 1 IN
        \E heirs \in SUBSET lost :
            /\ \/ heirs = lost /\ Cardinality(heirs) <= free
               \/ heirs # lost /\ Cardinality(heirs) = free
            /\ free - Cardinality(heirs) <= MaxSpare
            /\ Finish([p \in Pids |-> IF p \in lost
                                      THEN [paths[p] EXCEPT !.dcid = p \in heirs]
                                      ELSE paths[p]],
                      free - Cardinality(heirs), NoPid, TRUE, FALSE, migrated)
            /\ UNCHANGED is_server

----------------------------------------------------------------------------
(* Sent packets                                                            *)

(* get_send_path_id of an established connection: the first path with      *)
(* something to probe.                                                     *)
ProbePids(ps) == {p \in Slots(ps) : ps[p].dcid /\ ProbingRequired(ps[p])}

(* The packet that a server may send to an unverified address (the limit   *)
(* of send_on_path) has room for a PATH_CHALLENGE.                         *)
MaySend(p) == Held(p) => p.budget >= Small

(* The probing packet: PATH_RESPONSE and PATH_CHALLENGE frames, the        *)
(* challenge as large as the server may send.                              *)
Probed(p) ==
    LET q == [p EXCEPT !.challenged = FALSE]
    IN  {[(IF p.requested THEN ChallengeSent(q, IF Held(p) THEN p.budget ELSE Full) ELSE q)
            EXCEPT !.budget = b] : b \in Spent(p)}

(* With few bytes, the ACK that goes first or the header leave no room for *)
(* the challenge: what fits is sent, or nothing.  A challenge received is  *)
(* taken from its queue before its response is known to fit.               *)
NotProbed(p) ==
    IF Held(p) /\ p.budget \in {Scant, Small}
      THEN UNION {{[p EXCEPT !.budget = b], [p EXCEPT !.budget = b, !.challenged = FALSE]} :
                    b \in {Tiny, p.budget} \ {Small}}
      ELSE {}

SendProbe ==
    /\ ~closed
    /\ ProbePids(paths) # {}
    /\ LET pid == SetMin(ProbePids(paths)) IN
       \E p \in NotProbed(paths[pid]) \cup
                 (IF MaySend(paths[pid]) THEN Probed(paths[pid]) ELSE {}) :
            paths' = [paths EXCEPT ![pid] = p]
    /\ Noted
    /\ UNCHANGED <<is_server, spare, closed, migrated>>

(* Any other packet uses up what the server may send on the active path.   *)
SendOther ==
    /\ ~closed
    /\ ProbePids(paths) = {} /\ ActivePid(paths) # NoPid
    /\ LET p == paths[ActivePid(paths)] IN
       /\ Held(p) => p.budget > Tiny
       /\ \E b \in Spent(p) :
            paths' = [paths EXCEPT ![ActivePid(paths)].budget = b]
    /\ Noted
    /\ UNCHANGED <<is_server, spare, closed, migrated>>

----------------------------------------------------------------------------
(* Timeouts                                                                *)

(* Faulty variant: the connection is given up with its active path.        *)
TakeNoCandidate(ps) ==
    /\ paths' = ps
    /\ closed' = (ActivePid(ps) = NoPid)
    /\ UNCHANGED migrated

(* If the active path failed, on_timeout takes another one or gives up.    *)
TakeCandidate(ps) ==
    CASE ActivePid(ps) # NoPid -> paths' = ps /\ UNCHANGED <<closed, migrated>>
      [] ActivePid(ps) = NoPid /\ Candidates(ps) # {} ->
            LET pid == SetMin(Candidates(ps)) IN
            /\ paths' = SetActive(ps, pid)
            /\ migrated' = MigrationEvent(ps, pid, migrated)
            /\ UNCHANGED closed
      [] OTHER -> paths' = ps /\ closed' = TRUE /\ UNCHANGED migrated

(* on_timeout: the loss detection timers of some paths have expired.       *)
OnTimeout ==
    /\ ~closed
    /\ \E expired \in SUBSET Slots(paths), counts \in BOOLEAN :
        LET ps == [p \in Pids |-> IF p \in expired
                                  THEN LossTimeout(paths[p], counts)
                                  ELSE paths[p]]
        IN  TakeCandidate(ps)
    /\ Noted
    /\ UNCHANGED <<is_server, spare>>

----------------------------------------------------------------------------
(* The application                                                         *)

(* create_path_on_client (a spare SCID is assumed)                         *)
CreatedOnClient(a, pid) == [paths EXCEPT ![pid] = NewPath(a, TRUE, Tiny)]

(* probe_path                                                              *)
ProbePath ==
    /\ ~closed
    /\ \E a \in Addrs :
        \/ \E pid \in PidOf(paths, a) :
            /\ paths' = [paths EXCEPT ![pid] = RequestValidation(@)]
            /\ UNCHANGED spare
        \/ /\ PidOf(paths, a) = {} /\ ~is_server /\ spare > 0
           /\ \E pid \in Room(paths) :
                /\ paths' = [CreatedOnClient(a, pid) EXCEPT ![pid] = RequestValidation(@)]
           /\ spare' = spare - 1
    /\ Noted
    /\ UNCHANGED <<is_server, closed, migrated>>

(* migrate, of a client                                                    *)
Migrate ==
    /\ ~closed /\ ~is_server
    /\ \E a \in Addrs :
        \/ \E pid \in PidOf(paths, a) :
            /\ ~IsActive(paths[pid])
            /\ paths[pid].dcid \/ spare > 0           \* else OutOfIdentifiers
            /\ paths' = SetActive([paths EXCEPT ![pid].dcid = TRUE], pid)
            /\ spare' = IF paths[pid].dcid THEN spare ELSE spare - 1
        \/ /\ PidOf(paths, a) = {} /\ spare > 0
           /\ \E pid \in Room(paths) :
                /\ paths' = SetActive(CreatedOnClient(a, pid), pid)
           /\ spare' = spare - 1
    /\ Noted
    /\ UNCHANGED <<is_server, closed, migrated>>

(* retire_dcid, of a spare DCID or of the DCID of a path                   *)
RetireDcid ==
    /\ ~closed
    /\ ActivePid(paths) # NoPid                       \* else InvalidState
    /\ \/ spare > 0 /\ spare' = spare - 1 /\ UNCHANGED paths
       \/ \E pid \in Slots(paths) :
            /\ paths[pid].dcid
            /\ \/ spare > 0
               \/ /\ pid = ActivePid(paths) => Candidates(paths) # {pid}
                  /\ \E q \in Slots(paths) \ {pid} : paths[q].dcid  \* not the last
            /\ paths' = [paths EXCEPT ![pid].dcid = spare > 0]
            /\ spare' = IF spare > 0 THEN spare - 1 ELSE spare
    /\ Noted
    /\ UNCHANGED <<is_server, closed, migrated>>

----------------------------------------------------------------------------
Init ==
    /\ is_server \in BOOLEAN
    /\ paths = [p \in Pids |->
                    IF p = 0 THEN [NewPath(FirstAddr, TRUE, Tiny) EXCEPT
                                    !.state = Validated, !.active = TRUE, !.verified = TRUE]
                    ELSE EmptySlot]
    /\ spare \in 0 .. MaxSpare
    /\ closed = FALSE
    /\ migrated = FirstAddr
    /\ limbo = FALSE

Next ==
    \/ RecvOther \/ RecvPathChallenge \/ RecvPathResponse \/ RecvNewConnectionId
    \/ SendProbe \/ SendOther \/ OnTimeout
    \/ ProbePath \/ Migrate \/ RetireDcid

Spec == Init /\ [][Next]_vars

----------------------------------------------------------------------------
(* There is at most one path to send non-probing packets on: the one that  *)
(* set_active_path names supersedes the others.  Only after a path has     *)
(* been marked active that could not be (a failed path was migrated to, or *)
(* the active path was left without a DCID) may a second one come up.      *)
OneActive == limbo \/ Cardinality(ActivePids(paths)) <= 1

(* When the active path of a server is validated, the last PeerMigrated    *)
(* event named it, whatever path failed, was probed again, was validated   *)
(* late or was left and taken up again in between.                         *)
MigrationReported ==
    \A p \in ActivePids(paths) :
        is_server /\ ~closed /\ paths[p].state = Validated
            => limbo \/ migrated = paths[p].addr

(* A validation that has begun goes on until it succeeds or fails: a path  *)
(* under validation has a challenge in flight, whose loss will be noticed, *)
(* or another one is due, whatever was answered or lost in which order.    *)
ValidationGoesOn ==
    \A p \in Slots(paths) : UnderValidation(paths[p])
        => paths[p].flying # {} \/ paths[p].requested

(* The connection is only given up when no path is usable.                 *)
ClosedWhenStuck == closed => limbo \/ Candidates(paths) = {}

(* send() probes first: the path it has to probe is one that it may send a *)
(* challenge on, or no packet leaves the endpoint on any path.  "If        *)
(* requesting a challenge is not possible due to the amplification attack, *)
(* declare the validation as failed" says on_loss_detection_timeout.       *)
SendNotBlocked ==
    ~closed /\ ProbePids(paths) # {} => MaySend(paths[SetMin(ProbePids(paths))])

(* The application cannot stall the connection by retire_dcid, which       *)
(* leaves a path to send non-probing packets on.  Its documentation says   *)
(* that it "prevents the caller from stalling the connection".             *)
NotStalled == [][RetireDcid => ActivePids(paths') # {}]_vars
============================================================================
