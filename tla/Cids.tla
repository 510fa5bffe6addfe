-------------------------------- MODULE Cids --------------------------------
(***************************************************************************)
(* Connection IDs in one direction: the issuer hands source connection IDs *)
(* to its peer, the user, who holds them as destination connection IDs,    *)
(* gives one to each of its paths, and returns them with                   *)
(* RETIRE_CONNECTION_ID.  quiche/src/cid.rs on both sides, with the code   *)
(* of lib.rs that drives it: new_scid, retire_dcid, probe_path and migrate *)
(* of a client, the NEW_CONNECTION_ID and RETIRE_CONNECTION_ID parts of    *)
(* send_single and process_frame, the handlers of lost frames, and the     *)
(* assignment of a DCID to the paths without one that ends recv_single.    *)
(*                                                                         *)
(* A connection ID is its sequence number.  A packet holds one such frame. *)
(* It may overtake others, never arrive or, with Spurious, arrive before   *)
(* or after it is declared lost, but arrives once (packet numbers are      *)
(* checked).  Both ends use connection IDs of non-zero length and the      *)
(* handshake is over.                                                      *)
(***************************************************************************)
EXTENDS Integers, Sequences, FiniteSets, SequencesExt

CONSTANTS
    Limit,       \* active_conn_id_limit of the user
    RetiredMult, \* RETIRED_CONN_ID_LIMIT_MULTIPLIER
    MaxSeq,      \* bound: the highest sequence number issued
    MaxSent,     \* bound: packets sent with one of the two frames
    Renew,       \* the issuer calls new_scid with retire_if_needed
    Settled,     \* ... only when no NEW_CONNECTION_ID is queued or unacked
    Spurious     \* a packet that is declared lost may arrive all the same

ASSUME CidAssumption ==
    /\ Limit \in Nat \ {0, 1}
    /\ RetiredMult \in Nat \ {0}
    /\ MaxSeq \in Nat /\ MaxSent \in Nat
    /\ Renew \in BOOLEAN /\ Settled \in BOOLEAN /\ Spurious \in BOOLEAN

VARIABLES
    scids,       \* issuer: scids, a set: only its minimum and size matter
    next_scid_seq, retire_prior_to,
    adv,         \* issuer: advertise_new_scid_seqs
    dcids,       \* user: dcids, in the order in which they were inserted
    largest_rpt, \* user: largest_peer_retire_prior_to
    retire,      \* user: retire_dcid_seqs
    path,        \* user: active_dcid_seq of each path
    active,      \* user: the active path
    validated,   \* user: the paths that are validated
    net,         \* packets that are not acked, or lost and still on their way
    sent,        \* number of packets sent
    failed,      \* the error that closed the connection, or NoError
    misplaced    \* history: new_dcid searched dcids that were not partitioned

issuerVars == <<scids, next_scid_seq, retire_prior_to, adv>>
userVars == <<dcids, largest_rpt, retire, path, active, validated>>
vars == <<issuerVars, userVars, net, sent, failed, misplaced>>

Pids == {0, 1}
None == -1
Absent == -2     \* the path does not exist
NoError == "none"
Seqs == 0 .. MaxSeq
SetMin(S) == CHOOSE x \in S : \A y \in S : x <= y

Held == {dcids[i].seq : i \in DOMAIN dcids}

(* A packet: its frame ("new": a sequence number and a Retire Prior To;    *)
(* "retire": a sequence number), and the sequence number of the            *)
(* destination connection ID in its header (only used with "retire").      *)
Packet(kind, seq, rpt, dcid) ==
    [pn |-> sent, kind |-> kind, seq |-> seq, rpt |-> rpt, dcid |-> dcid,
     arrived |-> FALSE, lost |-> FALSE]

Open == failed = NoError

Fail(e) ==
    /\ failed' = e
    /\ UNCHANGED <<issuerVars, userVars>>

----------------------------------------------------------------------------
(* The issuer                                                              *)

(* lowest_usable_scid_seq                                                  *)
Usable(S, rpt) == {s \in S : s >= rpt}

(* scids.insert, the next sequence number and mark_advertise_new_scid_seq. *)
InsertScid ==
    IF Cardinality(scids) >= 2 * Limit - 1
      THEN UNCHANGED <<scids, next_scid_seq, adv>>     \* IdLimit
      ELSE /\ scids' = scids \cup {next_scid_seq}
           /\ next_scid_seq' = next_scid_seq + 1
           /\ adv' = Append(adv, next_scid_seq)

(* The caller's discipline under which a renewal is harmless.              *)
Calm ==
    /\ adv = <<>> /\ \A p \in net : p.kind = "retire"
    /\ Cardinality(scids) < 2 * Limit - 1

(* Connection::new_scid with a fresh CID.  At the limit, retire_if_needed  *)
(* raises retire_prior_to before the insertion is known to succeed.        *)
NewScid ==
    /\ Open
    /\ UNCHANGED misplaced
    /\ next_scid_seq <= MaxSeq
    /\ \/ /\ Cardinality(scids) < Limit
          /\ UNCHANGED retire_prior_to
       \/ /\ Cardinality(scids) >= Limit
          /\ Renew /\ (Settled => Calm)
          /\ Usable(scids, retire_prior_to) # {}      \* else InvalidState
          /\ retire_prior_to' = SetMin(Usable(scids, retire_prior_to)) + 1
    /\ InsertScid
    /\ UNCHANGED <<userVars, net, sent, failed>>

(* send_single: the NEW_CONNECTION_ID frame for the front of the queue.    *)
(* Its Retire Prior To is the one of the moment it is sent.                *)
SendNewConnectionId ==
    /\ Open
    /\ UNCHANGED misplaced
    /\ adv # <<>> /\ sent < MaxSent
    /\ IF Head(adv) \notin scids
         THEN Fail("issuer: InvalidState on send") /\ UNCHANGED <<net, sent>>
         ELSE /\ adv' = Tail(adv)
              /\ net' = net \cup {Packet("new", Head(adv), retire_prior_to, None)}
              /\ sent' = sent + 1
              /\ UNCHANGED <<scids, next_scid_seq, retire_prior_to, userVars, failed>>

(* retire_scid: removes the SCID and lets retire_prior_to follow the       *)
(* lowest one left.                                                        *)
RetireScid(p) ==
    LET left == scids \ {p.seq} IN
    CASE p.seq >= next_scid_seq -> Fail("issuer: InvalidState")
      [] p.seq < next_scid_seq /\ Cardinality(scids) <= 1 ->
            Fail("issuer: OutOfIdentifiers")
      [] p.seq < next_scid_seq /\ Cardinality(scids) > 1 /\ p.seq \notin scids ->
            UNCHANGED <<issuerVars, userVars, failed>>
      [] p.seq \in scids /\ Cardinality(scids) > 1
         /\ (p.seq = p.dcid \/ Usable(left, retire_prior_to) = {}) ->
            Fail("issuer: InvalidState")
      [] OTHER ->
            /\ scids' = left
            /\ retire_prior_to' = SetMin(Usable(left, retire_prior_to))
            /\ UNCHANGED <<next_scid_seq, adv, userVars, failed>>

(* The packet arrives; the issuer drops it when it does not know its DCID. *)
Arrives(p) == net' = (net \ {p}) \cup (IF p.lost THEN {} ELSE {[p EXCEPT !.arrived = TRUE]})

RecvRetireConnectionId ==
    /\ Open
    /\ UNCHANGED misplaced
    /\ \E p \in net :
           /\ p.kind = "retire" /\ ~p.arrived
           /\ p.dcid \in scids
           /\ Arrives(p)
           /\ RetireScid(p)
           /\ UNCHANGED sent

----------------------------------------------------------------------------
(* The user                                                                *)

(* lowest_available_dcid_seq over the entries d                            *)
Available(d) == {d[i].seq : i \in {j \in DOMAIN d : d[j].path = None}}

LinkDcid(d, seq, pid) ==
    [i \in DOMAIN d |-> IF d[i].seq = seq THEN [d[i] EXCEPT !.path = pid] ELSE d[i]]

(* The paths pids, in this order, get a free DCID each while there is one. *)
AssignDcids(d, paths, pids) ==
    FoldLeft(LAMBDA st, pid :
                IF st.path[pid] # None \/ Available(st.dcids) = {} THEN st
                ELSE LET s == SetMin(Available(st.dcids)) IN
                     [dcids |-> LinkDcid(st.dcids, s, pid),
                      path |-> [st.path EXCEPT ![pid] = s]],
             [dcids |-> d, path |-> paths], pids)

(* Faulty variant: the last DCID below Retire Prior To is kept.            *)
PartitionPointsShort(rpt) ==
    {i \in 0 .. Len(dcids) : i < Len(dcids) /\ dcids[i + 1].seq < rpt
                             /\ (i + 1 = Len(dcids) \/ dcids[i + 2].seq >= rpt)}

(* Where partition_point(e.seq < rpt) may cut.  On a deque that is not     *)
(* partitioned, which arrival out of order makes possible, std leaves the  *)
(* result unspecified; a binary search ends on one of the boundaries.      *)
PartitionPoints(rpt) ==
    {i \in 0 .. Len(dcids) :
        /\ i = 0 \/ dcids[i].seq < rpt
        /\ i = Len(dcids) \/ dcids[i + 1].seq >= rpt}

(* The precondition of partition_point: the entries below rpt come first.  *)
Partitioned(rpt) ==
    \A i, j \in DOMAIN dcids : i < j /\ dcids[j].seq < rpt => dcids[i].seq < rpt

(* The rest of new_dcid once the DCIDs gone are drained, the switch of     *)
(* their paths to another DCID, and the paths left without one (the loop   *)
(* that ends recv_single: only a new DCID gives it work).                  *)
AcceptDcid(p, gone, kept) ==
    LET switched == SelectSeq(gone, LAMBDA e : e.path # None /\ path[e.path] = e.seq)
        pids == [i \in DOMAIN switched |-> switched[i].path]
        cleared == [q \in Pids |-> IF q \in {pids[i] : i \in DOMAIN pids}
                                   THEN None ELSE path[q]]
        assigned == AssignDcids(Append(kept, [seq |-> p.seq, path |-> None]),
                                cleared, pids \o <<0, 1>>)
    IN  /\ dcids' = assigned.dcids
        /\ retire' = retire \cup {gone[i].seq : i \in DOMAIN gone}
        /\ path' = assigned.path

(* RETIRED_CONN_ID_LIMIT_MULTIPLIER * active_conn_id_limit                 *)
RetireCap == RetiredMult * Limit

(* new_dcid, and what process_frame and recv_single do with its result.    *)
NewDcid(p) ==
    CASE p.seq \in Held -> UNCHANGED <<issuerVars, userVars, failed, misplaced>>
      [] p.seq \notin Held /\ p.rpt > p.seq ->
            Fail("user: InvalidFrame") /\ UNCHANGED misplaced
      [] p.seq \notin Held /\ p.rpt <= p.seq /\ p.seq < largest_rpt ->
            /\ UNCHANGED misplaced
            /\ IF Cardinality(retire) >= RetireCap
                 THEN Fail("user: IdLimit")
                 ELSE /\ retire' = retire \cup {p.seq}
                      /\ UNCHANGED <<dcids, largest_rpt, path, active, validated,
                                     issuerVars, failed>>
      [] OTHER ->
         /\ misplaced' = (misplaced \/ (p.rpt > largest_rpt /\ ~Partitioned(p.rpt)))
         /\ \E cut \in IF p.rpt > largest_rpt THEN PartitionPoints(p.rpt) ELSE {0} :
                IF \/ Cardinality(retire) + cut > RetireCap
                   \/ Len(dcids) - cut >= Limit
                  THEN Fail("user: IdLimit")
                  ELSE /\ largest_rpt' = IF p.rpt > largest_rpt THEN p.rpt ELSE largest_rpt
                       /\ AcceptDcid(p, SubSeq(dcids, 1, cut),
                                     SubSeq(dcids, cut + 1, Len(dcids)))
                       /\ UNCHANGED <<active, validated, issuerVars, failed>>

RecvNewConnectionId ==
    /\ Open
    /\ \E p \in net :
           /\ p.kind = "new" /\ ~p.arrived
           /\ Arrives(p)
           /\ NewDcid(p)
           /\ UNCHANGED sent

(* create_path_on_client (probe_path or migrate to a new address)          *)
CreatePath ==
    /\ Open
    /\ UNCHANGED misplaced
    /\ \E pid \in Pids :
           /\ path[pid] = Absent
           /\ Available(dcids) # {}
           /\ path' = [path EXCEPT ![pid] = SetMin(Available(dcids))]
           /\ dcids' = LinkDcid(dcids, SetMin(Available(dcids)), pid)
           /\ UNCHANGED <<largest_rpt, retire, active, validated, issuerVars, net, sent, failed>>

(* A PATH_RESPONSE validates the path.                                     *)
ValidatePath ==
    /\ Open
    /\ UNCHANGED misplaced
    /\ \E pid \in Pids :
           /\ path[pid] >= 0
           /\ validated' = validated \cup {pid}
           /\ UNCHANGED <<dcids, largest_rpt, retire, path, active, issuerVars, net, sent, failed>>

(* migrate to an existing path, which needs a DCID or gets a free one.     *)
Migrate ==
    /\ Open
    /\ UNCHANGED misplaced
    /\ \E pid \in Pids \ {active} :
           LET assigned == AssignDcids(dcids, path, <<pid>>) IN
           /\ path[pid] # Absent
           /\ assigned.path[pid] # None                  \* else OutOfIdentifiers
           /\ path' = assigned.path /\ dcids' = assigned.dcids
           /\ active' = pid
           /\ UNCHANGED <<largest_rpt, retire, validated, issuerVars, net, sent, failed>>

(* Path::usable of a path that is not the active one                       *)
UsablePath(pid) == pid \in validated /\ path[pid] >= 0

(* Faulty variant: the DCID is withdrawn and its path is left as it is.    *)
RetireDcidKeepPath ==
    /\ Open
    /\ UNCHANGED misplaced
    /\ \E i \in DOMAIN dcids :
           /\ path[active] # None /\ Len(dcids) > 1
           /\ Cardinality(retire) < RetireCap
           /\ retire' = retire \cup {dcids[i].seq}
           /\ dcids' = RemoveAt(dcids, i)
           /\ UNCHANGED <<path, largest_rpt, active, validated, issuerVars, net, sent, failed>>

(* Connection::retire_dcid.  When retire_dcid_seqs is full the entry is    *)
(* already removed: the path keeps its sequence number.                    *)
RetireDcid ==
    /\ Open
    /\ UNCHANGED misplaced
    /\ \E i \in DOMAIN dcids :
           LET e == dcids[i]
               left == RemoveAt(dcids, i)
               assigned == IF e.path = None THEN [dcids |-> left, path |-> path]
                           ELSE AssignDcids(left, [path EXCEPT ![e.path] = None], <<e.path>>)
           IN  /\ path[active] # None                    \* else InvalidState
               /\ ~ /\ path[active] = e.seq              \* else OutOfIdentifiers
                    /\ Available(dcids) = {}
                    /\ \A pid \in Pids \ {active} : ~UsablePath(pid)
               /\ Len(dcids) > 1                         \* else OutOfIdentifiers
               /\ IF Cardinality(retire) >= RetireCap
                    THEN dcids' = left /\ UNCHANGED <<retire, path>>
                    ELSE /\ retire' = retire \cup {e.seq}
                         /\ dcids' = assigned.dcids /\ path' = assigned.path
               /\ UNCHANGED <<largest_rpt, active, validated, issuerVars, net, sent, failed>>

(* Faulty variant: a DCID is retired in a packet that uses it.             *)
SendRetireAnyDcid ==
    /\ Open
    /\ UNCHANGED misplaced
    /\ \E s \in retire :
           /\ sent < MaxSent
           /\ path[active] # None
           /\ net' = net \cup {Packet("retire", s, 0, s)}
           /\ retire' = {}
           /\ sent' = sent + 1
           /\ UNCHANGED <<dcids, largest_rpt, path, active, validated, issuerVars, failed>>

(* send_single on the active path, which must have a DCID it still holds.  *)
SendRetireConnectionId ==
    /\ Open
    /\ UNCHANGED misplaced
    /\ \E s \in retire :
           /\ sent < MaxSent
           /\ path[active] \in Held /\ path[active] # s
           /\ net' = net \cup {Packet("retire", s, 0, path[active])}
           /\ retire' = retire \ {s}
           /\ sent' = sent + 1
           /\ UNCHANGED <<dcids, largest_rpt, path, active, validated, issuerVars, failed>>

----------------------------------------------------------------------------
(* Acknowledgements and loss                                               *)

Acked ==
    /\ Open
    /\ UNCHANGED misplaced
    /\ \E p \in net :
           /\ p.arrived
           /\ net' = net \ {p}
           /\ UNCHANGED <<issuerVars, userVars, sent, failed>>

(* Faulty variant: the frame of a lost packet is not queued again.         *)
LostNotQueued(p) == UNCHANGED <<issuerVars, userVars, failed>>

(* The lost frame is queued again: lost frames in send_single.             *)
Requeue(p) ==
    CASE p.kind = "new" ->
            /\ adv' = Append(adv, p.seq)
            /\ UNCHANGED <<scids, next_scid_seq, retire_prior_to, userVars, failed>>
      [] p.kind = "retire" /\ Cardinality(retire) >= RetireCap -> Fail("user: IdLimit")
      [] OTHER ->
            /\ retire' = retire \cup {p.seq}
            /\ UNCHANGED <<dcids, largest_rpt, path, active, validated, issuerVars, failed>>

(* Loss detection, or a PTO, takes the packet for lost.                    *)
Lost ==
    /\ Open
    /\ UNCHANGED misplaced
    /\ \E p \in net :
           /\ ~p.lost /\ (p.arrived => Spurious)
           /\ Requeue(p)
           /\ net' = (net \ {p}) \cup (IF p.arrived \/ ~Spurious THEN {} ELSE {[p EXCEPT !.lost = TRUE]})
           /\ UNCHANGED sent

----------------------------------------------------------------------------
Init ==
    /\ scids = {0} /\ next_scid_seq = 1 /\ retire_prior_to = 0 /\ adv = <<>>
    /\ dcids = <<[seq |-> 0, path |-> 0]>>
    /\ largest_rpt = 0 /\ retire = {}
    /\ path = [pid \in Pids |-> IF pid = 0 THEN 0 ELSE Absent]
    /\ active = 0 /\ validated = {0}
    /\ net = {} /\ sent = 0 /\ failed = NoError /\ misplaced = FALSE

Next ==
    \/ NewScid \/ SendNewConnectionId \/ RecvRetireConnectionId
    \/ RecvNewConnectionId \/ CreatePath \/ ValidatePath
    \/ Migrate \/ RetireDcid \/ SendRetireConnectionId
    \/ Acked \/ Lost

Spec == Init /\ [][Next]_vars

----------------------------------------------------------------------------
TypeOK ==
    /\ scids \subseteq Seqs /\ next_scid_seq \in 1 .. MaxSeq + 1
    /\ retire_prior_to \in 0 .. MaxSeq + 1
    /\ adv \in Seq(Seqs)
    /\ dcids \in Seq([seq : Seqs, path : Pids \cup {None}])
    /\ largest_rpt \in 0 .. MaxSeq + 1 /\ retire \subseteq Seqs
    /\ path \in [Pids -> Seqs \cup {None, Absent}]
    /\ active \in Pids /\ validated \subseteq Pids
    /\ sent \in 0 .. MaxSent /\ failed \in STRING /\ misplaced \in BOOLEAN

(* Two ends that follow the code close the connection on each other over a *)
(* connection ID in one way only: new_dcid, retire_scid, the bounded queues *)
(* and get_new_connection_id_frame_for raise no error, whatever is lost or *)
(* overtaken, unless partition_point cut the DCIDs in a wrong place        *)
(* because NEW_CONNECTION_ID frames had arrived out of order and a later   *)
(* replacement divides them.                                               *)
NoConnectionError == failed # NoError => misplaced

(* A replacement finds room in the user's table: "to avoid exceeding the   *)
(* capacity [...] we first remove the elements and then insert the new     *)
(* one" says the comment in new_dcid.                                      *)
ReplacementFits == failed = NoError

(* Every path sends with a DCID that is linked to it, that no other path   *)
(* uses and that the issuer still accepts: retired connection IDs are not  *)
(* in use anymore, and a packet on the path finds the connection.          *)
Routable ==
    \A pid \in Pids : path[pid] >= 0 =>
        /\ path[pid] \in scids
        /\ \E i \in DOMAIN dcids : dcids[i].seq = path[pid] /\ dcids[i].path = pid
        /\ \A q \in Pids \ {pid} : path[q] # path[pid]

(* No connection ID is forgotten by both ends: what the issuer still keeps *)
(* the user holds, or a frame about it is queued or on its way.  One that  *)
(* is forgotten takes a place under the limit for the rest of the          *)
(* connection.                                                             *)
OnItsWay(s) == \E p \in net : p.seq = s /\ ~p.lost
NothingForgotten ==
    failed = NoError => scids \subseteq Held \cup retire \cup Range(adv)
                                       \cup {s \in Seqs : OnItsWay(s)}

(* The user gives up every DCID below the largest Retire Prior To it was   *)
(* told, in whichever order the NEW_CONNECTION_ID frames arrived, as long  *)
(* as partition_point's precondition was met.                              *)
RetiredGone == \A s \in Held : s >= largest_rpt \/ misplaced
============================================================================
