---------------------------- MODULE PathsProofs ----------------------------
(***************************************************************************)
(* Proofs about module Paths: the four properties that its run checks, for *)
(* any four-tuples, any number of paths and DCIDs and any number of        *)
(* probing timeouts, whatever the peer, the network and the application    *)
(* do.                                                                     *)
(***************************************************************************)
EXTENDS Paths, FiniteSetTheorems, WellFoundedInduction, TLAPS

PathType ==
    [addr : Addrs \cup {NoAddr}, state : Failed .. Validated, active : BOOLEAN,
     dcid : BOOLEAN, flying : SUBSET Sizes, fullSize : BOOLEAN,
     probing_lost : Nat, challenged : BOOLEAN, requested : BOOLEAN,
     migrating : BOOLEAN, verified : BOOLEAN, budget : Tiny .. Full]

(* A validation that has begun goes on.                                    *)
GoesOn(p) == UnderValidation(p) => p.flying # {} \/ p.requested

(* What holds of a path even after a path was in limbo.                    *)
Fine(p) == p \in PathType /\ (p.active => p.addr # NoAddr) /\ GoesOn(p)
AllFine(ps) == ps \in [Pids -> PathType] /\ \A p \in Pids : Fine(ps[p])

(* No path is in limbo: the flag `active` means what active() says.        *)
AllWork(ps) == \A p \in Pids : ps[p].active => IsActive(ps[p])

(* A server on an active path has reported it, or will when the path is    *)
(* validated.                                                              *)
Reported(p, m) ==
    is_server /\ p.active => IF p.state = Validated THEN m = p.addr ELSE p.migrating

SomeActive(ps) == \E p \in Pids : ps[p].active

(* One path has the flag, the last PeerMigrated event having named m.      *)
Sane(ps, m) ==
    /\ SomeActive(ps)
    /\ \A p, q \in Pids : ps[p].active /\ ps[q].active => p = q
    /\ \A p \in Pids : Reported(ps[p], m)

(* As long as no path was in limbo, a connection has one active path that  *)
(* works until it is given up, and then no path is left to use.            *)
IInv ==
    /\ AllFine(paths)
    /\ ~limbo => /\ AllWork(paths)
                 /\ ~closed => Sane(paths, migrated)
                 /\ closed => Candidates(paths) = {}

----------------------------------------------------------------------------
(* What SetMin chooses                                                     *)
LEMMA SetMinIn ==
    ASSUME NEW S \in SUBSET Nat, S # {}
    PROVE  SetMin(S) \in S /\ \A y \in S : SetMin(S) <= y
<1>1. PICK x \in S : \A y \in S : ~(<<y, x>> \in OpToRel(<, Nat))
  BY WFMin, NatLessThanWellFounded
<1>2. x \in Nat /\ S \subseteq Nat
  OBVIOUS
<1>3. \A y \in S : ~(y < x)
  BY <1>1, <1>2, Zenon DEF OpToRel
<1>4. \A y \in S : x <= y
  BY <1>2, <1>3
<1> QED BY <1>4 DEF SetMin

----------------------------------------------------------------------------
(* One path                                                                *)

(* q is p as far as migration is concerned.                                *)
Alike(p, q) ==
    /\ q.addr = p.addr /\ q.active = p.active /\ q.migrating = p.migrating
    /\ q.state = Validated <=> p.state = Validated

LEMMA DcidFine ==
    ASSUME NEW p, Fine(p), NEW d \in BOOLEAN
    PROVE  /\ Fine([p EXCEPT !.dcid = d]) /\ Alike(p, [p EXCEPT !.dcid = d])
           /\ [p EXCEPT !.dcid = d].state = p.state
           /\ [p EXCEPT !.dcid = d].dcid = d
BY DEF Fine, PathType, GoesOn, UnderValidation, Alike

LEMMA BudgetFine ==
    ASSUME NEW p, Fine(p), NEW b \in Tiny .. Full
    PROVE  /\ Fine([p EXCEPT !.budget = b]) /\ Alike(p, [p EXCEPT !.budget = b])
           /\ [p EXCEPT !.budget = b].state = p.state
           /\ [p EXCEPT !.budget = b].dcid = p.dcid
           /\ [p EXCEPT !.budget = b].challenged = p.challenged
BY DEF Fine, PathType, GoesOn, UnderValidation, Alike

LEMMA ChallengedFine ==
    ASSUME NEW p, Fine(p), NEW c \in BOOLEAN
    PROVE  /\ Fine([p EXCEPT !.challenged = c]) /\ Alike(p, [p EXCEPT !.challenged = c])
           /\ [p EXCEPT !.challenged = c].requested = p.requested
           /\ [p EXCEPT !.challenged = c].verified = p.verified
           /\ [p EXCEPT !.challenged = c].budget = p.budget
BY DEF Fine, PathType, GoesOn, UnderValidation, Alike

LEMMA RequestFine ==
    ASSUME NEW p, Fine(p)
    PROVE  /\ Fine(RequestValidation(p)) /\ Alike(p, RequestValidation(p))
           /\ RequestValidation(p).state = p.state /\ RequestValidation(p).dcid = p.dcid
           /\ RequestValidation(p).requested = TRUE
BY DEF Fine, PathType, GoesOn, UnderValidation, Alike, RequestValidation

(* A loss fails the path or is followed by another challenge.              *)
LEMMA LossFine ==
    ASSUME NEW p, Fine(p), NEW counts \in BOOLEAN
    PROVE  /\ Fine(LossTimeout(p, counts))
           /\ LossTimeout(p, counts).active =>
                /\ Alike(p, LossTimeout(p, counts))
                /\ LossTimeout(p, counts).state = p.state
                /\ LossTimeout(p, counts).dcid = p.dcid
<1> DEFINE lost == IF counts /\ p.probing_lost < MaxTimeouts
                   THEN p.probing_lost + 1 ELSE p.probing_lost
           q == [p EXCEPT !.flying = {}, !.probing_lost = lost]
<1>1. p \in PathType
  BY DEF Fine
<1>2. lost \in Nat
  BY <1>1, PathAssumption DEF PathType
<1> HIDE DEF lost
<1>3. /\ q \in PathType /\ q.addr = p.addr /\ q.state = p.state
      /\ q.active = p.active /\ q.dcid = p.dcid /\ q.migrating = p.migrating
  BY <1>1, <1>2 DEF PathType
<1> HIDE DEF q
<1>4. CASE p.flying = {}
  BY <1>4 DEF LossTimeout, Alike
<1>5. CASE p.flying # {} /\ (lost >= MaxTimeouts \/ (is_server /\ p.budget = Tiny))
  <2> DEFINE f == [q EXCEPT !.state = Failed]
             g == FailedValidation(q)
  <2>1. LossTimeout(p, counts) = g
    BY <1>5 DEF LossTimeout, lost, q
  <2>2. f \in PathType /\ f.state = Failed
    BY <1>3 DEF PathType, Failed, Validated
  <2>3. g = [f EXCEPT !.active = FALSE]
    BY <1>3 DEF FailedValidation, PathType
  <2> HIDE DEF f
  <2>4. g \in PathType /\ g.active = FALSE /\ g.state = Failed
    BY <2>2, <2>3 DEF PathType
  <2> HIDE DEF g
  <2>5. Fine(g)
    BY <2>4 DEF Fine, GoesOn, UnderValidation, Failed, Validating, ValidatingMTU
  <2> QED BY <2>1, <2>4, <2>5
<1>6. CASE p.flying # {} /\ ~(lost >= MaxTimeouts \/ (is_server /\ p.budget = Tiny))
  <2>1. LossTimeout(p, counts) = [q EXCEPT !.requested = TRUE]
    BY <1>6 DEF LossTimeout, lost, q, RequestValidation
  <2> DEFINE r == [q EXCEPT !.requested = TRUE]
  <2>2. /\ r \in PathType /\ r.addr = q.addr /\ r.state = q.state /\ r.requested = TRUE
        /\ r.active = q.active /\ r.dcid = q.dcid /\ r.migrating = q.migrating
    BY <1>3 DEF PathType
  <2> HIDE DEF r
  <2> QED BY <1>3, <2>1, <2>2 DEF Fine, GoesOn, Alike, r
<1> QED BY <1>4, <1>5, <1>6

(* The answer to a challenge: an active path that it validates is          *)
(* reported, unless it was before; another one is probed at full size.     *)
Answered(p, size) ==
    LET r == ResponseReceived(p, size)
    IN  IF p.state < Validated /\ r.state = Validated
        THEN [r EXCEPT !.migrating = FALSE] ELSE r

Told(p, size) ==
    p.state < Validated /\ ResponseReceived(p, size).state = Validated /\ p.migrating

LEMMA ResponseFine ==
    ASSUME NEW m, NEW p, Fine(p), NEW size \in Sizes
    PROVE  /\ Fine(Answered(p, size))
           /\ Answered(p, size).active = p.active
           /\ Reported(p, m) =>
                Reported(Answered(p, size), IF Told(p, size) /\ p.active THEN p.addr ELSE m)
<1> DEFINE a == [p EXCEPT !.state = IF @ < ValidatingMTU THEN ValidatingMTU ELSE @]
           b == [a EXCEPT !.verified = TRUE, !.budget = Verified(@)]
           q == [b EXCEPT !.probing_lost = 0, !.flying = @ \ {size}, !.fullSize = @ \/ size = Full]
           r == ResponseReceived(p, size)
<1>1. p \in PathType
  BY DEF Fine
<1>2. /\ a \in PathType /\ a.state \in {ValidatingMTU, Validated}
      /\ a.state = Validated <=> p.state = Validated
      /\ a.addr = p.addr /\ a.active = p.active /\ a.migrating = p.migrating
  BY <1>1 DEF PathType, ValidatingMTU, Validated, Failed
<1> HIDE DEF a
<1>3. b \in PathType
  <2>1. Verified(a.budget) \in Tiny .. Full
    BY DEF Verified, Tiny, Full
  <2> QED BY <1>2, <2>1 DEF PathType
<1>4. /\ b.state = a.state /\ b.addr = a.addr /\ b.active = a.active
      /\ b.migrating = a.migrating
  BY <1>2 DEF PathType
<1> HIDE DEF b
<1>5. q \in PathType
  BY <1>3 DEF PathType
<1>6. /\ q.state = a.state /\ q.addr = p.addr /\ q.active = p.active
      /\ q.migrating = p.migrating
  BY <1>2, <1>3, <1>4 DEF PathType
<1>7. q = [Promote(p, ValidatingMTU) EXCEPT
             !.verified = TRUE, !.budget = Verified(@), !.probing_lost = 0,
             !.flying = @ \ {size}, !.fullSize = @ \/ size = Full]
  BY <1>1, <1>2, <1>3, <1>5 DEF Promote, a, b, PathType
<1> HIDE DEF q
<1>8. /\ r \in PathType /\ r.addr = p.addr /\ r.active = p.active
      /\ r.migrating = p.migrating /\ r.state \in {ValidatingMTU, Validated}
      /\ p.state = Validated => r.state = Validated
      /\ r.state = Validated \/ r.requested
  <2>1. CASE q.state = ValidatingMTU /\ q.fullSize
    <3>1. r = [q EXCEPT !.state = IF @ < Validated THEN Validated ELSE @]
      BY <1>7, <2>1 DEF ResponseReceived, Promote
    <3> QED BY <1>2, <1>5, <1>6, <2>1, <3>1
            DEF PathType, ValidatingMTU, Validated, Failed
  <2>2. CASE q.state = ValidatingMTU /\ ~q.fullSize
    <3>1. r = [q EXCEPT !.requested = TRUE]
      BY <1>7, <2>2 DEF ResponseReceived, RequestValidation
    <3> QED BY <1>2, <1>5, <1>6, <2>2, <3>1
            DEF PathType, ValidatingMTU, Validated, Failed
  <2>3. CASE q.state # ValidatingMTU
    <3>1. r = q
      BY <1>7, <2>3 DEF ResponseReceived
    <3> QED BY <1>2, <1>5, <1>6, <2>3, <3>1
  <2> QED BY <2>1, <2>2, <2>3
<1> HIDE DEF r
<1>9. GoesOn(r)
  BY <1>8 DEF GoesOn, UnderValidation, Validating, ValidatingMTU, Validated
<1>10. CASE p.state < Validated /\ r.state = Validated
  <2> DEFINE s == [r EXCEPT !.migrating = FALSE]
  <2>1. Answered(p, size) = s /\ (Told(p, size) <=> p.migrating)
    BY <1>10 DEF Answered, Told, r
  <2>2. s \in PathType /\ s.addr = p.addr /\ s.active = p.active /\ s.state = r.state
    BY <1>8 DEF PathType
  <2> HIDE DEF s
  <2>3. Fine(s)
    BY <1>10, <2>2 DEF Fine, GoesOn, UnderValidation, Validating, ValidatingMTU, Validated
  <2>4. Reported(p, m) => Reported(s, IF Told(p, size) /\ p.active THEN p.addr ELSE m)
    BY <1>10, <2>1, <2>2 DEF Reported, Validated
  <2> QED BY <2>1, <2>2, <2>3, <2>4
<1>11. CASE ~(p.state < Validated /\ r.state = Validated)
  <2>1. Answered(p, size) = r /\ ~Told(p, size)
    BY <1>11 DEF Answered, Told, r
  <2>2. r.state = Validated <=> p.state = Validated
    BY <1>1, <1>8, <1>11 DEF PathType, Validated, Failed
  <2>3. Reported(p, m) => Reported(r, m)
    BY <1>8, <2>2 DEF Reported
  <2>4. Fine(r)
    BY <1>8, <1>9 DEF Fine
  <2> QED BY <1>8, <2>1, <2>3, <2>4
<1> QED BY <1>10, <1>11

LEMMA SpentRange ==
    ASSUME NEW p \in PathType, NEW b \in Spent(p)
    PROVE  b \in Tiny .. Full
BY DEF Spent, PathType, Tiny, Full

(* A probing packet leaves a challenge in flight if one was due.           *)
LEMMA ProbedFine ==
    ASSUME NEW p, Fine(p), MaySend(p), NEW s \in Probed(p)
    PROVE  Fine(s) /\ Alike(p, s)
<1> DEFINE q == [p EXCEPT !.challenged = FALSE]
           size == IF Held(p) THEN p.budget ELSE Full
           c == [q EXCEPT !.state = IF @ < Validating THEN Validating ELSE @]
           d == [c EXCEPT !.requested = FALSE, !.flying = @ \cup {size}]
<1>1. p \in PathType
  BY DEF Fine
<1>2. PICK b \in Spent(p) :
        s = [(IF p.requested THEN ChallengeSent(q, size) ELSE q) EXCEPT !.budget = b]
  BY DEF Probed
<1>3. b \in Tiny .. Full
  BY <1>1, SpentRange
<1>4. Fine(q) /\ Alike(p, q)
  BY ChallengedFine
<1>5. ChallengeSent(q, size) = d
  BY DEF ChallengeSent, Promote
<1>6. size \in Sizes
  BY <1>1 DEF MaySend, PathType, Sizes, Tiny, Small, Full
<1> HIDE DEF q, size
<1>7. Fine(d) /\ Alike(q, d)
  <2>1. /\ c \in PathType /\ c.addr = q.addr /\ c.active = q.active
        /\ c.migrating = q.migrating /\ (c.state = Validated <=> q.state = Validated)
    BY <1>4 DEF Fine, PathType, Failed, Validating, Validated
  <2> HIDE DEF c
  <2>2. d \in PathType
    BY <1>6, <2>1 DEF PathType
  <2>3. /\ d.addr = c.addr /\ d.active = c.active /\ d.migrating = c.migrating
        /\ d.state = c.state /\ d.flying # {}
    BY <1>6, <2>1 DEF PathType
  <2> HIDE DEF d
  <2> QED BY <1>4, <2>1, <2>2, <2>3 DEF Fine, GoesOn, Alike
<1> HIDE DEF d
<1>8. CASE p.requested
  BY <1>2, <1>3, <1>4, <1>5, <1>7, <1>8, BudgetFine DEF Alike
<1>9. CASE ~p.requested
  BY <1>2, <1>3, <1>4, <1>9, BudgetFine DEF Alike
<1> QED BY <1>8, <1>9

LEMMA NotProbedFine ==
    ASSUME NEW p, Fine(p), NEW s \in NotProbed(p)
    PROVE  Fine(s) /\ Alike(p, s)
<1>1. p \in PathType
  BY DEF Fine
<1>2. PICK b \in {Tiny, p.budget} :
        s \in {[p EXCEPT !.budget = b], [p EXCEPT !.budget = b, !.challenged = FALSE]}
  BY DEF NotProbed
<1>3. b \in Tiny .. Full
  BY <1>1 DEF PathType, Tiny, Full
<1> DEFINE q == [p EXCEPT !.budget = b]
<1>4. Fine(q) /\ Alike(p, q)
  BY <1>3, BudgetFine
<1>5. s \in {q, [q EXCEPT !.challenged = FALSE]}
  BY <1>1, <1>2 DEF PathType
<1> HIDE DEF q
<1>6. Fine([q EXCEPT !.challenged = FALSE]) /\ Alike(q, [q EXCEPT !.challenged = FALSE])
  BY <1>4, ChallengedFine
<1> QED BY <1>4, <1>5, <1>6 DEF Alike

----------------------------------------------------------------------------
(* The path map                                                            *)

(* get_active_path_id finds a path that has the flag, if any.              *)
LEMMA ActivePidIs ==
    ASSUME NEW ps
    PROVE  /\ ActivePid(ps) # NoPid =>
                ActivePid(ps) \in Pids /\ IsActive(ps[ActivePid(ps)])
           /\ ActivePid(ps) = NoPid => ActivePids(ps) = {}
<1>1. ActivePids(ps) \in SUBSET Nat /\ ActivePids(ps) \subseteq Pids
  BY DEF ActivePids, Slots, Pids
<1>2. CASE ActivePids(ps) = {}
  BY <1>2 DEF ActivePid
<1>3. CASE ActivePids(ps) # {}
  <2>1. ActivePid(ps) \in ActivePids(ps)
    BY <1>1, <1>3, SetMinIn DEF ActivePid
  <2>2. ActivePid(ps) # NoPid
    BY <1>1, <2>1 DEF NoPid
  <2> QED BY <1>1, <2>1, <2>2 DEF ActivePids
<1> QED BY <1>2, <1>3

(* With no path in limbo, get_active_path_id finds the path with the flag. *)
LEMMA ActiveIs ==
    ASSUME NEW ps, NEW m, AllFine(ps), AllWork(ps)
    PROVE  /\ ActivePids(ps) = {p \in Pids : ps[p].active}
           /\ ActivePid(ps) # NoPid <=> SomeActive(ps)
           /\ SomeActive(ps) => ActivePid(ps) \in Pids /\ ps[ActivePid(ps)].active
           /\ Sane(ps, m) => \A p \in Pids : ps[p].active <=> ActivePid(ps) = p
<1>1. ActivePids(ps) = {p \in Pids : ps[p].active}
  BY DEF AllFine, Fine, AllWork, ActivePids, Slots, IsActive
<1>2. ActivePid(ps) # NoPid => ActivePid(ps) \in Pids /\ ps[ActivePid(ps)].active
  BY ActivePidIs DEF IsActive
<1>3. ActivePid(ps) # NoPid <=> SomeActive(ps)
  BY <1>1, <1>2, ActivePidIs DEF SomeActive
<1> QED BY <1>1, <1>2, <1>3 DEF Sane

(* A change of one path, which stays active if it was; n is reported in    *)
(* place of m only if it is the active path that changes.                  *)
LEMMA OneChanged ==
    ASSUME NEW ps, AllFine(ps), NEW pid \in Pids, NEW q, Fine(q), NEW m, NEW n
    PROVE  /\ AllFine([ps EXCEPT ![pid] = q])
           /\ [ps EXCEPT ![pid] = q][pid] = q
           /\ (/\ Sane(ps, m) /\ q.active = ps[pid].active /\ Reported(q, n)
               /\ n = m \/ ps[pid].active) => Sane([ps EXCEPT ![pid] = q], n)
           /\ AllWork(ps) /\ (q.active => IsActive(q)) => AllWork([ps EXCEPT ![pid] = q])
<1> DEFINE new == [ps EXCEPT ![pid] = q]
<1>1. new \in [Pids -> PathType]
  BY DEF AllFine, Fine
<1>2. \A x \in Pids : new[x] = IF x = pid THEN q ELSE ps[x]
  BY DEF AllFine
<1> HIDE DEF new
<1>3. AllFine(new) /\ new[pid] = q
  BY <1>1, <1>2 DEF AllFine
<1>4. AllWork(ps) /\ (q.active => IsActive(q)) => AllWork(new)
  BY <1>2 DEF AllWork
<1>5. ASSUME Sane(ps, m), q.active = ps[pid].active, Reported(q, n),
             n = m \/ ps[pid].active
      PROVE  Sane(new, n)
  <2>1. ASSUME NEW x \in Pids PROVE Reported(new[x], n)
    <3>1. CASE x = pid
      BY <1>2, <1>5, <3>1
    <3>2. CASE x # pid
      <4>1. new[x] = ps[x] /\ Reported(ps[x], m)
        BY <1>2, <1>5, <3>2 DEF Sane
      <4>2. n = m \/ ~ps[x].active
        BY <1>5, <3>2 DEF Sane
      <4> QED BY <4>1, <4>2 DEF Reported
    <3> QED BY <3>1, <3>2
  <2>2. \A x \in Pids : new[x].active = ps[x].active
    BY <1>2, <1>5
  <2> QED BY <1>5, <2>1, <2>2 DEF Sane, SomeActive
<1> QED BY <1>3, <1>4, <1>5 DEF new

LEMMA AlikeReported ==
    ASSUME NEW p, NEW q, NEW m, Alike(p, q), Reported(p, m)
    PROVE  Reported(q, m)
BY DEF Alike, Reported

(* A change of every path that is none as far as migration is concerned.   *)
LEMMA AllAlike ==
    ASSUME NEW ps, NEW new, new \in [Pids -> PathType], NEW m,
           \A p \in Pids : Fine(new[p]) /\ Alike(ps[p], new[p])
    PROVE  AllFine(new) /\ (Sane(ps, m) => Sane(new, m))
<1>1. AllFine(new)
  BY DEF AllFine
<1>2. ASSUME Sane(ps, m) PROVE Sane(new, m)
  <2>1. \A p \in Pids : Reported(new[p], m)
    BY <1>2, AlikeReported DEF Sane
  <2>2. \A p \in Pids : new[p].active = ps[p].active
    BY DEF Alike
  <2> QED BY <1>2, <2>1, <2>2 DEF Sane, SomeActive
<1> QED BY <1>1, <1>2

LEMMA DcidsAssigned ==
    ASSUME NEW ps, NEW m, AllFine(ps), NEW n
    PROVE  /\ AllFine(Assigned(ps, n))
           /\ Sane(ps, m) => Sane(Assigned(ps, n), m)
           /\ AllWork(ps) => AllWork(Assigned(ps, n))
           /\ \A p \in Pids : Alike(ps[p], Assigned(ps, n)[p])
<1> DEFINE new == Assigned(ps, n)
<1>1. \A p \in Pids : new[p] \in {ps[p], [ps[p] EXCEPT !.dcid = TRUE]}
  BY DEF Assigned
<1>2. DOMAIN new = Pids /\ new = [p \in Pids |-> new[p]]
  BY DEF Assigned
<1> HIDE DEF new
<1>3. ASSUME NEW p \in Pids
      PROVE  /\ Fine(new[p]) /\ Alike(ps[p], new[p])
             /\ IsActive(ps[p]) => IsActive(new[p])
  <2>1. Fine(ps[p])
    BY DEF AllFine
  <2>2. CASE new[p] = ps[p]
    BY <2>1, <2>2 DEF Alike
  <2>3. CASE new[p] = [ps[p] EXCEPT !.dcid = TRUE]
    <3>1. /\ Fine(new[p]) /\ Alike(ps[p], new[p])
          /\ new[p].state = ps[p].state /\ new[p].dcid = TRUE
      BY <2>1, <2>3, DcidFine
    <3> QED BY <3>1 DEF Alike, IsActive, Working
  <2> QED BY <1>1, <2>2, <2>3
<1>4. new \in [Pids -> PathType]
  BY <1>2, <1>3 DEF Fine
<1>5. AllFine(new) /\ (Sane(ps, m) => Sane(new, m))
  BY <1>3, <1>4, AllAlike
<1>6. AllWork(ps) => AllWork(new)
  BY <1>3 DEF AllWork, Alike
<1> QED BY <1>3, <1>5, <1>6 DEF new

(* set_active_path, and the DCID that on_peer_migrated gives the path: if  *)
(* no other path is in limbo, the path becomes the only one with the flag, *)
(* and a server reports it now or when it is validated.                    *)
LEMMA ActiveSet ==
    ASSUME NEW ps, AllFine(ps), NEW pid \in Pids, ps[pid].addr # NoAddr, NEW m
    PROVE  LET new == [SetActive(ps, pid) EXCEPT ![pid].dcid = TRUE]
           IN  /\ AllFine(SetActive(ps, pid)) /\ AllFine(new)
               /\ ps[pid].dcid => new = SetActive(ps, pid)
               /\ (\A x \in Pids : ps[x].active => ActivePid(ps) = x)
                    => Sane(new, MigrationEvent(ps, pid, m))
<1> DEFINE old == ActivePid(ps)
           cleared == IF old = NoPid THEN ps ELSE [ps EXCEPT ![old].active = FALSE]
           p == [cleared[pid] EXCEPT !.active = TRUE]
           q == IF is_server /\ p.state # Validated THEN [p EXCEPT !.migrating = TRUE] ELSE p
           r == IF is_server /\ p.state # Validated /\ ~UnderValidation(p)
                THEN RequestValidation(q) ELSE q
           s == [r EXCEPT !.dcid = TRUE]
           n == MigrationEvent(ps, pid, m)
           new == [SetActive(ps, pid) EXCEPT ![pid].dcid = TRUE]
<1>1. ps \in [Pids -> PathType]
  BY DEF AllFine
<1>2. /\ AllFine(cleared)
      /\ \A x \in Pids : x # old => cleared[x] = ps[x]
      /\ old \in Pids => ~cleared[old].active
      /\ cleared[pid].addr = ps[pid].addr /\ cleared[pid].state = ps[pid].state
      /\ cleared[pid].dcid = ps[pid].dcid
  <2>1. CASE old = NoPid
    <3>1. old \notin Pids
      BY <2>1 DEF NoPid, Pids
    <3> QED BY <2>1, <3>1
  <2>2. CASE old # NoPid
    <3> DEFINE c == [ps[old] EXCEPT !.active = FALSE]
    <3>1. old \in Pids
      BY <2>2, ActivePidIs
    <3>2. Fine(ps[old]) /\ ps[old] \in PathType
      BY <3>1 DEF AllFine, Fine
    <3>3. /\ Fine(c) /\ c.active = FALSE /\ c.addr = ps[old].addr
          /\ c.state = ps[old].state /\ c.dcid = ps[old].dcid
      BY <3>2 DEF Fine, PathType, GoesOn, UnderValidation
    <3>4. cleared = [ps EXCEPT ![old] = c]
      BY <2>2
    <3> HIDE DEF c, old
    <3>5. AllFine([ps EXCEPT ![old] = c]) /\ [ps EXCEPT ![old] = c][old] = c
      BY <3>1, <3>3, OneChanged
    <3>6. \A x \in Pids : x # old => [ps EXCEPT ![old] = c][x] = ps[x]
      BY <1>1
    <3> HIDE DEF cleared
    <3> QED BY <3>1, <3>3, <3>4, <3>5, <3>6
  <2> QED BY <2>1, <2>2
<1>3. cleared \in [Pids -> PathType] /\ Fine(cleared[pid]) /\ cleared[pid] \in PathType
  BY <1>2 DEF AllFine, Fine
<1>4. new = [cleared EXCEPT ![pid] = s] /\ SetActive(ps, pid) = [cleared EXCEPT ![pid] = r]
  <2>1. SetActive(ps, pid) = [cleared EXCEPT ![pid] = r]
    BY DEF SetActive
  <2> HIDE DEF r, cleared
  <2> QED BY <1>3, <2>1
<1> HIDE DEF cleared
<1>5. /\ p \in PathType /\ p.addr = ps[pid].addr /\ p.state = ps[pid].state
      /\ p.dcid = ps[pid].dcid /\ p.flying = cleared[pid].flying
      /\ p.requested = cleared[pid].requested
  BY <1>2, <1>3 DEF PathType
<1>6. p.active = TRUE
  BY <1>3 DEF PathType
<1>7. Fine(p)
  <2>1. cleared[pid].state = p.state
    BY <1>2, <1>5
  <2> HIDE DEF p
  <2> QED BY <1>3, <1>5, <2>1 DEF Fine, GoesOn, UnderValidation
<1> HIDE DEF p
<1>8. /\ Fine(q) /\ q.addr = p.addr /\ q.state = p.state /\ q.active = p.active
      /\ q.dcid = p.dcid
  BY <1>7 DEF Fine, PathType, GoesOn, UnderValidation
<1>9. is_server /\ p.state # Validated => q.migrating
  BY <1>5 DEF PathType
<1> HIDE DEF q
<1>10. /\ Fine(r) /\ r.addr = q.addr /\ r.state = q.state /\ r.active = q.active
       /\ r.dcid = q.dcid /\ r.migrating = q.migrating
  BY <1>8, RequestFine DEF Alike
<1> HIDE DEF r
<1>11. /\ Fine(s) /\ s.addr = r.addr /\ s.state = r.state /\ s.active = r.active
       /\ s.migrating = r.migrating
  BY <1>10, DcidFine DEF Alike
<1>12. ps[pid].dcid => s = r
  BY <1>5, <1>8, <1>10 DEF Fine, PathType
<1> HIDE DEF s, new
<1>13. AllFine(new) /\ AllFine(SetActive(ps, pid))
  <2>1. AllFine(cleared) /\ Fine(r) /\ Fine(s)
    BY <1>2, <1>10, <1>11
  <2>2. AllFine([cleared EXCEPT ![pid] = s])
    BY <2>1, OneChanged
  <2>3. AllFine([cleared EXCEPT ![pid] = r])
    BY <2>1, OneChanged
  <2> QED BY <1>4, <2>2, <2>3
<1>14. ps[pid].dcid => new = SetActive(ps, pid)
  BY <1>4, <1>12
<1>15. ASSUME \A x \in Pids : ps[x].active => old = x
       PROVE  Sane(new, n)
  <2>1. \A x \in Pids : new[x] = IF x = pid THEN s ELSE cleared[x]
    BY <1>3, <1>4
  <2>2. \A x \in Pids : ~cleared[x].active
    BY <1>2, <1>15
  <2>3. \A x \in Pids : new[x].active <=> x = pid
    BY <1>6, <1>8, <1>10, <1>11, <2>1, <2>2
  <2>4. Reported(s, n)
    BY <1>5, <1>8, <1>9, <1>10, <1>11 DEF Reported, MigrationEvent
  <2>5. \A x \in Pids : Reported(new[x], n)
    BY <2>1, <2>3, <2>4 DEF Reported
  <2> QED BY <2>3, <2>5 DEF Sane, SomeActive
<1> QED BY <1>13, <1>14, <1>15 DEF new, n, old

----------------------------------------------------------------------------
(* Received packets                                                        *)

(* make_room_for_new_path never takes the slot of a path that works.       *)
LEMMA RoomFree ==
    ASSUME NEW ps, AllFine(ps), NEW pid \in Room(ps)
    PROVE  pid \in Pids /\ (AllWork(ps) => ~ps[pid].active)
<1>1. Pids \subseteq Nat /\ Slots(ps) \subseteq Pids
  BY DEF Pids, Slots
<1>2. CASE Slots(ps) # Pids
  <2>1. pid = SetMin(Pids \ Slots(ps))
    BY <1>2 DEF Room
  <2>2. pid \in Pids \ Slots(ps)
    BY <1>1, <1>2, <2>1, SetMinIn
  <2> QED BY <2>2 DEF Slots, AllFine, Fine
<1>3. CASE Slots(ps) = Pids
  <2>1. Unused(ps) # {} /\ pid = SetMin(Unused(ps))
    BY <1>3 DEF Room
  <2>2. pid \in Unused(ps)
    BY <1>1, <2>1, SetMinIn DEF Unused
  <2>3. pid \in Pids /\ ~IsActive(ps[pid])
    BY <2>2 DEF Unused, IsUnused, Slots
  <2> QED BY <2>3 DEF AllWork
<1> QED BY <1>2, <1>3

LEMMA NewPathFine ==
    ASSUME NEW a \in Addrs, NEW d \in BOOLEAN, NEW b \in Tiny .. Full
    PROVE  /\ Fine(NewPath(a, d, b)) /\ NewPath(a, d, b).active = FALSE
           /\ NewPath(a, d, b).addr # NoAddr /\ NewPath(a, d, b).dcid = d
<1>1. NewPath(a, d, b) \in PathType
  BY DEF NewPath, PathType, Unknown, Failed, Validated
<1>2. /\ NewPath(a, d, b).active = FALSE /\ NewPath(a, d, b).dcid = d
      /\ NewPath(a, d, b).state = Unknown
  BY DEF NewPath
<1>3. NewPath(a, d, b).addr # NoAddr
  BY PathAssumption DEF NewPath, NoAddr
<1> QED BY <1>1, <1>2, <1>3
        DEF Fine, GoesOn, UnderValidation, Unknown, Validating, ValidatingMTU

(* A path q that the endpoint puts in a slot without an active path.       *)
LEMMA PathAdded ==
    ASSUME AllFine(paths), NEW pid \in Room(paths), NEW q, Fine(q), q.active = FALSE
    PROVE  /\ pid \in Pids /\ AllFine([paths EXCEPT ![pid] = q])
           /\ [paths EXCEPT ![pid] = q][pid] = q
           /\ AllWork(paths) => AllWork([paths EXCEPT ![pid] = q])
           /\ AllWork(paths) /\ Sane(paths, migrated)
                => Sane([paths EXCEPT ![pid] = q], migrated)
<1>1. pid \in Pids /\ (AllWork(paths) => ~paths[pid].active)
  BY RoomFree
<1>2. paths[pid].active \in BOOLEAN
  BY <1>1 DEF AllFine, PathType
<1>3. AllWork(paths) => q.active = paths[pid].active
  BY <1>1, <1>2
<1>4. Reported(q, migrated)
  BY DEF Reported
<1> QED BY <1>1, <1>3, <1>4, OneChanged

(* A step may count on this as long as no path was in limbo.               *)
Good(ps) == AllWork(ps) /\ Sane(ps, migrated)

LEMMA AttributedFine ==
    ASSUME AllFine(paths), NEW a \in Addrs, NEW pid \in Landing(a), NEW b \in Credits(a, pid)
    PROVE  /\ AllFine(Attributed(a, pid, b))
           /\ pid \in Pids /\ Attributed(a, pid, b)[pid].addr # NoAddr
           /\ Good(paths) => Good(Attributed(a, pid, b))
<1>1. CASE PidOf(paths, a) # {}
  <2> DEFINE q == [paths[pid] EXCEPT !.budget = b]
  <2>1. pid \in Pids /\ paths[pid].addr # NoAddr
    BY <1>1 DEF Landing, PidOf, Slots
  <2>2. Fine(paths[pid]) /\ paths[pid] \in PathType
    BY <2>1 DEF AllFine, Fine
  <2>3. b \in Tiny .. Full
    BY <1>1, <2>2 DEF Credits, PathType, Sizes, Tiny, Small, Full
  <2>4. /\ Fine(q) /\ Alike(paths[pid], q)
        /\ q.state = paths[pid].state /\ q.dcid = paths[pid].dcid
    BY <2>2, <2>3, BudgetFine
  <2>5. Attributed(a, pid, b) = [paths EXCEPT ![pid] = q]
    BY <1>1 DEF Attributed
  <2> HIDE DEF q
  <2>6. AllFine([paths EXCEPT ![pid] = q]) /\ [paths EXCEPT ![pid] = q][pid] = q
    BY <2>1, <2>4, OneChanged
  <2>7. ASSUME Good(paths) PROVE Good([paths EXCEPT ![pid] = q])
    <3>1. Reported(q, migrated) /\ q.active = paths[pid].active
      BY <2>1, <2>4, <2>7, AlikeReported DEF Good, Sane, Alike
    <3>2. q.active => IsActive(q)
      BY <2>1, <2>4, <2>7 DEF Good, AllWork, Alike, IsActive, Working
    <3> QED BY <2>1, <2>4, <2>7, <3>1, <3>2, OneChanged DEF Good
  <2> QED BY <2>1, <2>4, <2>5, <2>6, <2>7 DEF Alike
<1>2. CASE PidOf(paths, a) = {}
  <2> DEFINE q == RequestValidation(NewPath(a, FALSE, b))
  <2>1. pid \in Room(paths)
    BY <1>2 DEF Landing
  <2>2. b \in Tiny .. Full /\ FALSE \in BOOLEAN
    BY <1>2 DEF Credits, Sizes, Tiny, Small, Full
  <2>3. Fine(q) /\ q.active = FALSE /\ q.addr # NoAddr
    <3> DEFINE new == NewPath(a, FALSE, b)
    <3>1. Fine(new) /\ new.active = FALSE /\ new.addr # NoAddr
      BY <2>2, NewPathFine
    <3>2. Fine(RequestValidation(new)) /\ Alike(new, RequestValidation(new))
      BY <3>1, RequestFine
    <3> QED BY <3>1, <3>2 DEF Alike
  <2>4. Attributed(a, pid, b) = [paths EXCEPT ![pid] = q]
    BY <1>2 DEF Attributed
  <2> HIDE DEF q
  <2> QED BY <2>1, <2>3, <2>4, PathAdded DEF Good
<1> QED BY <1>1, <1>2

(* What a step keeps: the unconditional part, and the rest if it may count *)
(* on it.                                                                  *)
Keeps ==
    /\ AllFine(paths')
    /\ Good(paths) /\ ~closed => ~closed' /\ Sane(paths', migrated')

(* The end of recv_single.                                                 *)
LEMMA Finished ==
    ASSUME NEW ps, NEW m, NEW n, NEW pid, NEW probing \in BOOLEAN,
           NEW newest \in BOOLEAN, AllFine(paths), AllFine(ps),
           ~probing => pid \in Pids /\ ps[pid].addr # NoAddr,
           Finish(ps, n, pid, probing, newest, m)
    PROVE  /\ AllFine(paths')
           /\ ~closed /\ Sane(ps, m) /\ (probing \/ AllWork(ps))
                => ~closed' /\ Sane(paths', migrated')
<1> DEFINE assigned == Assigned(ps, n)
           moved == [SetActive(assigned, pid) EXCEPT ![pid].dcid = TRUE]
<1>1. /\ AllFine(assigned)
      /\ Sane(ps, m) => Sane(assigned, m)
      /\ AllWork(ps) => AllWork(assigned)
      /\ \A p \in Pids : Alike(ps[p], assigned[p])
  BY DcidsAssigned
<1>2. Sane(ps, m) /\ AllWork(ps) => ActivePid(assigned) # NoPid
  BY <1>1, ActiveIs DEF Sane
<1>3. CASE ~probing /\ ActivePid(assigned) = NoPid
  <2>1. paths' = paths
    BY <1>3 DEF Finish
  <2> QED BY <1>2, <1>3, <2>1
<1>4. CASE Follows(assigned, pid, probing, newest) /\ ActivePid(assigned) # NoPid
  <2>1. /\ paths' = moved /\ closed' = closed
        /\ migrated' = MigrationEvent(assigned, pid, m)
    BY <1>4 DEF Finish
  <2>2. ~probing /\ pid \in Pids /\ ps[pid].addr # NoAddr
    BY <1>4 DEF Follows
  <2> HIDE DEF assigned
  <2>3. assigned[pid].addr # NoAddr
    BY <1>1, <2>2 DEF Alike
  <2>4. /\ AllFine(moved)
        /\ (\A x \in Pids : assigned[x].active => ActivePid(assigned) = x)
             => Sane(moved, MigrationEvent(assigned, pid, m))
    BY <1>1, <2>2, <2>3, ActiveSet
  <2>5. ASSUME Sane(ps, m), AllWork(ps)
        PROVE  \A x \in Pids : assigned[x].active => ActivePid(assigned) = x
    BY <1>1, <2>5, ActiveIs
  <2> QED BY <2>1, <2>2, <2>4, <2>5
<1>5. CASE /\ ~(~probing /\ ActivePid(assigned) = NoPid)
           /\ ~(Follows(assigned, pid, probing, newest) /\ ActivePid(assigned) # NoPid)
  <2>1. paths' = assigned /\ migrated' = m /\ closed' = closed
    BY <1>5 DEF Finish
  <2> QED BY <1>1, <2>1
<1> QED BY <1>3, <1>4, <1>5

LEMMA RecvOtherKeeps ==
    ASSUME AllFine(paths), RecvOther
    PROVE  Keeps
<1>1. PICK a \in Addrs, newest \in BOOLEAN : \E pid \in Landing(a) :
         \E b \in Credits(a, pid) :
            Finish(Attributed(a, pid, b), spare, pid, FALSE, newest, migrated)
  BY DEF RecvOther
<1>2. PICK pid, b :
         /\ pid \in Landing(a) /\ b \in Credits(a, pid)
         /\ Finish(Attributed(a, pid, b), spare, pid, FALSE, newest, migrated)
  BY <1>1
<1> DEFINE ps == Attributed(a, pid, b)
<1>3. /\ AllFine(ps) /\ pid \in Pids /\ ps[pid].addr # NoAddr
      /\ Good(paths) => Good(ps)
  BY <1>2, AttributedFine
<1>4. Finish(ps, spare, pid, FALSE, newest, migrated)
  BY <1>2
<1> HIDE DEF ps
<1>5. /\ AllFine(paths')
      /\ ~closed /\ Sane(ps, migrated) /\ AllWork(ps) => ~closed' /\ Sane(paths', migrated')
  BY <1>3, <1>4, Finished
<1> QED BY <1>3, <1>5 DEF Keeps, Good

LEMMA RecvPathChallengeKeeps ==
    ASSUME AllFine(paths), RecvPathChallenge
    PROVE  Keeps
<1>1. PICK a \in Addrs : \E pid \in Landing(a) : \E b \in Credits(a, pid) :
         Finish([Attributed(a, pid, b) EXCEPT ![pid].challenged = TRUE],
                spare, pid, TRUE, FALSE, migrated)
  BY DEF RecvPathChallenge
<1>2. PICK pid, b :
         /\ pid \in Landing(a) /\ b \in Credits(a, pid)
         /\ Finish([Attributed(a, pid, b) EXCEPT ![pid].challenged = TRUE],
                   spare, pid, TRUE, FALSE, migrated)
  BY <1>1
<1> DEFINE ps == Attributed(a, pid, b)
           q == [ps[pid] EXCEPT !.challenged = TRUE]
           new == [ps EXCEPT ![pid] = q]
<1>3. AllFine(ps) /\ pid \in Pids /\ (Good(paths) => Good(ps))
  BY <1>2, AttributedFine
<1>4. Finish(new, spare, pid, TRUE, FALSE, migrated)
  BY <1>2
<1> HIDE DEF ps
<1>5. Fine(ps[pid])
  BY <1>3 DEF AllFine
<1>6. Fine(q) /\ Alike(ps[pid], q)
  BY <1>5, ChallengedFine
<1> HIDE DEF q
<1>7. AllFine(new) /\ (Sane(ps, migrated) => Sane(new, migrated))
  <2>1. Sane(ps, migrated) => Reported(q, migrated) /\ q.active = ps[pid].active
    BY <1>3, <1>6, AlikeReported DEF Sane, Alike
  <2> QED BY <1>3, <1>6, <2>1, OneChanged
<1> HIDE DEF new
<1>8. /\ AllFine(paths')
      /\ ~closed /\ Sane(new, migrated) => ~closed' /\ Sane(paths', migrated')
  BY <1>4, <1>7, Finished
<1> QED BY <1>3, <1>7, <1>8 DEF Keeps, Good

(* The path that a response validates need not be the one it came on.      *)
LEMMA RecvPathResponseKeeps ==
    ASSUME AllFine(paths), RecvPathResponse
    PROVE  /\ Keeps /\ UNCHANGED is_server
           /\ Noted \/ UNCHANGED <<paths, limbo>>
<1> DEFINE Processed(ps, from, size, pid) ==
             LET p == ResponseReceived(ps[from], size)
                 done == ps[from].state < Validated /\ p.state = Validated
                 told == done /\ ps[from].migrating /\ from = ActivePid(ps)
             IN  IF ActivePid(ps) = NoPid
                   THEN /\ closed' = TRUE
                        /\ UNCHANGED <<paths, spare, migrated, limbo, is_server>>
                   ELSE /\ Finish([ps EXCEPT ![from] =
                                     IF done THEN [p EXCEPT !.migrating = FALSE] ELSE p],
                                  spare, pid, TRUE, FALSE,
                                  IF told THEN ps[from].addr ELSE migrated)
                        /\ UNCHANGED is_server
<1>0. PICK a \in Addrs, from \in Slots(paths) :
         \E pid \in PidOf(paths, a), size \in paths[from].flying :
         \E b \in Credits(a, pid) : Processed(Attributed(a, pid, b), from, size, pid)
  BY DEF RecvPathResponse
<1> HIDE DEF Processed
<1>1. PICK pid, size, b :
         /\ pid \in PidOf(paths, a) /\ b \in Credits(a, pid) /\ size \in paths[from].flying
         /\ Processed(Attributed(a, pid, b), from, size, pid)
  BY <1>0
<1> DEFINE ps == Attributed(a, pid, b)
<1>2. AllFine(ps) /\ (Good(paths) => Good(ps))
  <2>1. pid \in Landing(a)
    BY <1>1 DEF Landing
  <2> QED BY <1>1, <2>1, AttributedFine
<1>3. Processed(ps, from, size, pid)
  BY <1>1
<1>4. from \in Pids /\ size \in Sizes
  <2>1. from \in Pids
    BY DEF Slots
  <2>2. paths[from] \in PathType
    BY <2>1 DEF AllFine
  <2> QED BY <1>1, <2>1, <2>2 DEF PathType
<1> HIDE DEF ps
<1>5. CASE ActivePid(ps) = NoPid
  <2>1. UNCHANGED <<paths, spare, migrated, limbo, is_server>>
    BY <1>3, <1>5 DEF Processed
  <2>2. ~Good(ps)
    BY <1>2, <1>5, ActiveIs DEF Good, Sane
  <2> QED BY <1>2, <2>1, <2>2 DEF Keeps
<1>6. CASE ActivePid(ps) # NoPid
  <2> DEFINE q == Answered(ps[from], size)
             told == Told(ps[from], size) /\ from = ActivePid(ps)
             m == IF told THEN ps[from].addr ELSE migrated
             n == IF Told(ps[from], size) /\ ps[from].active THEN ps[from].addr ELSE migrated
             new == [ps EXCEPT ![from] = q]
  <2>1. Finish(new, spare, pid, TRUE, FALSE, m) /\ UNCHANGED is_server
    BY <1>3, <1>6 DEF Answered, Told, Processed
  <2>2. Fine(ps[from])
    BY <1>2, <1>4 DEF AllFine
  <2>3. /\ Fine(q) /\ q.active = ps[from].active
        /\ Reported(ps[from], migrated) => Reported(q, n)
    BY <1>4, <2>2, ResponseFine
  <2>4. Good(ps) => m = n
    BY <1>2, <1>4, ActiveIs DEF Good
  <2>5. n = migrated \/ ps[from].active
    OBVIOUS
  <2> HIDE DEF q, m, n
  <2>6. AllFine(new) /\ (Sane(ps, migrated) => Sane(new, n))
    <3>1. Sane(ps, migrated) => Reported(q, n)
      BY <1>4, <2>3 DEF Sane
    <3> QED BY <1>2, <1>4, <2>3, <2>5, <3>1, OneChanged
  <2> HIDE DEF new
  <2>7. /\ AllFine(paths')
        /\ ~closed /\ Sane(new, m) => ~closed' /\ Sane(paths', migrated')
    BY <2>1, <2>6, Finished
  <2>8. Noted
    BY <2>1 DEF Finish
  <2> QED BY <1>2, <2>1, <2>4, <2>6, <2>7, <2>8 DEF Keeps, Good
<1> QED BY <1>5, <1>6

(* NEW_CONNECTION_ID may leave the active path without DCID.               *)
LEMMA RecvNewConnectionIdKeeps ==
    ASSUME AllFine(paths), RecvNewConnectionId
    PROVE  Keeps /\ Noted
<1> DEFINE Left(lost, heirs) == [p \in Pids |-> IF p \in lost
                                      THEN [paths[p] EXCEPT !.dcid = p \in heirs]
                                      ELSE paths[p]]
<1>1. PICK lost, heirs, n : Finish(Left(lost, heirs), n, NoPid, TRUE, FALSE, migrated)
  BY Zenon DEF RecvNewConnectionId
<1> DEFINE ps == Left(lost, heirs)
<1>2. ASSUME NEW p \in Pids
      PROVE  Fine(ps[p]) /\ Alike(paths[p], ps[p])
  <2>1. Fine(paths[p])
    BY DEF AllFine
  <2>2. CASE p \in lost
    <3>1. (p \in heirs) \in BOOLEAN
      OBVIOUS
    <3>2. ps[p] = [paths[p] EXCEPT !.dcid = p \in heirs]
      BY <2>2
    <3> QED BY <2>1, <3>1, <3>2, DcidFine
  <2>3. CASE p \notin lost
    BY <2>1, <2>3 DEF Alike
  <2> QED BY <2>2, <2>3
<1>3. DOMAIN ps = Pids /\ ps = [p \in Pids |-> ps[p]]
  OBVIOUS
<1>4. Finish(ps, n, NoPid, TRUE, FALSE, migrated)
  BY <1>1
<1> HIDE DEF ps, Left
<1>5. ps \in [Pids -> PathType]
  BY <1>2, <1>3 DEF Fine
<1>6. AllFine(ps) /\ (Sane(paths, migrated) => Sane(ps, migrated))
  BY <1>2, <1>5, AllAlike
<1>7. /\ AllFine(paths')
      /\ ~closed /\ Sane(ps, migrated) => ~closed' /\ Sane(paths', migrated')
  BY <1>4, <1>6, Finished
<1>8. Noted
  BY <1>4 DEF Finish
<1> QED BY <1>6, <1>7, <1>8 DEF Keeps, Good

----------------------------------------------------------------------------
(* Sent packets, timeouts and the application                              *)

(* The change of one path that is none as far as migration is concerned.   *)
LEMMA OneAlike ==
    ASSUME NEW ps, AllFine(ps), NEW pid \in Pids, NEW q, Fine(q), Alike(ps[pid], q), NEW m
    PROVE  /\ AllFine([ps EXCEPT ![pid] = q])
           /\ Sane(ps, m) => Sane([ps EXCEPT ![pid] = q], m)
<1>1. Sane(ps, m) => Reported(q, m) /\ q.active = ps[pid].active
  BY AlikeReported DEF Sane, Alike
<1> QED BY <1>1, OneChanged

LEMMA SendProbeKeeps ==
    ASSUME AllFine(paths), SendProbe
    PROVE  Keeps
<1> DEFINE pid == SetMin(ProbePids(paths))
<1>1. pid \in Pids
  <2>1. ProbePids(paths) \in SUBSET Nat /\ ProbePids(paths) # {}
    BY DEF ProbePids, Slots, Pids, SendProbe
  <2>2. pid \in ProbePids(paths)
    BY <2>1, SetMinIn
  <2> QED BY <2>2 DEF ProbePids, Slots
<1>2. Fine(paths[pid])
  BY <1>1 DEF AllFine
<1>3. PICK p \in NotProbed(paths[pid]) \cup
                  (IF MaySend(paths[pid]) THEN Probed(paths[pid]) ELSE {}) :
        paths' = [paths EXCEPT ![pid] = p]
  BY DEF SendProbe
<1> HIDE DEF pid
<1>4. Fine(p) /\ Alike(paths[pid], p)
  BY <1>2, NotProbedFine, ProbedFine
<1>5. AllFine(paths') /\ (Sane(paths, migrated) => Sane(paths', migrated))
  BY <1>1, <1>3, <1>4, OneAlike
<1>6. closed' = closed /\ migrated' = migrated
  BY DEF SendProbe
<1> QED BY <1>5, <1>6 DEF Keeps, Good

LEMMA SendOtherKeeps ==
    ASSUME AllFine(paths), SendOther
    PROVE  Keeps
<1> DEFINE pid == ActivePid(paths)
<1>1. pid \in Pids
  BY ActivePidIs DEF SendOther
<1>2. Fine(paths[pid]) /\ paths[pid] \in PathType
  BY <1>1 DEF AllFine, Fine
<1>3. PICK b \in Spent(paths[pid]) :
         paths' = [paths EXCEPT ![pid] = [paths[pid] EXCEPT !.budget = b]]
  BY DEF SendOther
<1> HIDE DEF pid
<1> DEFINE q == [paths[pid] EXCEPT !.budget = b]
<1>4. b \in Tiny .. Full
  BY <1>2, SpentRange
<1>5. Fine(q) /\ Alike(paths[pid], q)
  BY <1>2, <1>4, BudgetFine
<1> HIDE DEF q
<1>6. AllFine(paths') /\ (Sane(paths, migrated) => Sane(paths', migrated))
  BY <1>1, <1>3, <1>5, OneAlike DEF q
<1>7. closed' = closed /\ migrated' = migrated
  BY DEF SendOther
<1> QED BY <1>6, <1>7 DEF Keeps, Good

(* on_timeout: the connection goes on with an active path, or is closed    *)
(* with no path left to use.                                               *)
LEMMA OnTimeoutKeeps ==
    ASSUME AllFine(paths), OnTimeout
    PROVE  /\ AllFine(paths')
           /\ Good(paths) => \/ ~closed' /\ Sane(paths', migrated')
                             \/ closed' /\ Candidates(paths') = {}
<1> DEFINE After(expired, counts) ==
             [p \in Pids |-> IF p \in expired
                             THEN LossTimeout(paths[p], counts) ELSE paths[p]]
<1>1. PICK expired, counts : counts \in BOOLEAN /\ TakeCandidate(After(expired, counts))
  BY Zenon DEF OnTimeout
<1> DEFINE ps == After(expired, counts)
<1>2. ASSUME NEW p \in Pids
      PROVE  /\ Fine(ps[p])
             /\ ps[p].active => /\ Alike(paths[p], ps[p]) /\ ps[p].state = paths[p].state
                                /\ ps[p].dcid = paths[p].dcid
  <2>1. Fine(paths[p])
    BY DEF AllFine
  <2>2. CASE p \in expired
    <3>1. ps[p] = LossTimeout(paths[p], counts)
      BY <2>2
    <3> QED BY <1>1, <2>1, <3>1, LossFine
  <2>3. CASE p \notin expired
    BY <2>1, <2>3 DEF Alike
  <2> QED BY <2>2, <2>3
<1>3. DOMAIN ps = Pids /\ ps = [p \in Pids |-> ps[p]]
  OBVIOUS
<1>4. TakeCandidate(ps) /\ ~closed
  BY <1>1 DEF OnTimeout
<1> HIDE DEF ps, After
<1>5. AllFine(ps)
  BY <1>2, <1>3 DEF AllFine, Fine
<1>6. Good(paths) => AllWork(ps)
  BY <1>2 DEF Good, AllWork, Alike, IsActive, Working
<1>7. Good(paths) /\ SomeActive(ps) => Sane(ps, migrated)
  <2>1. ASSUME Good(paths), NEW p \in Pids PROVE Reported(ps[p], migrated)
    <3>1. Reported(paths[p], migrated)
      BY <2>1 DEF Good, Sane
    <3>2. CASE ps[p].active
      BY <1>2, <3>1, <3>2, AlikeReported
    <3>3. CASE ~ps[p].active
      BY <3>3 DEF Reported
    <3> QED BY <3>2, <3>3
  <2>2. \A p \in Pids : ps[p].active => paths[p].active
    BY <1>2 DEF Alike
  <2> QED BY <2>1, <2>2 DEF Good, Sane
<1>8. CASE ActivePid(ps) # NoPid
  <2>1. paths' = ps /\ closed' = closed /\ migrated' = migrated
    BY <1>4, <1>8 DEF TakeCandidate
  <2>2. Good(paths) => SomeActive(ps)
    BY <1>5, <1>6, <1>8, ActiveIs
  <2> QED BY <1>4, <1>5, <1>7, <2>1, <2>2
<1>9. CASE ActivePid(ps) = NoPid /\ Candidates(ps) # {}
  <2> DEFINE pid == SetMin(Candidates(ps))
  <2>1. /\ paths' = SetActive(ps, pid) /\ closed' = closed
        /\ migrated' = MigrationEvent(ps, pid, migrated)
    BY <1>4, <1>9 DEF TakeCandidate
  <2>2. Candidates(ps) \in SUBSET Nat
    BY DEF Candidates, Slots, Pids
  <2>3. pid \in Candidates(ps)
    BY <1>9, <2>2, SetMinIn
  <2> HIDE DEF pid
  <2>4. pid \in Pids /\ ps[pid].addr # NoAddr /\ ps[pid].dcid
    BY <2>3 DEF Candidates, Slots, IsUsable, IsActive
  <2> DEFINE new == [SetActive(ps, pid) EXCEPT ![pid].dcid = TRUE]
  <2>5. /\ AllFine(new) /\ new = SetActive(ps, pid)
        /\ (\A x \in Pids : ps[x].active => ActivePid(ps) = x)
             => Sane(new, MigrationEvent(ps, pid, migrated))
    BY <1>5, <2>4, ActiveSet
  <2> HIDE DEF new
  <2>6. Good(paths) => \A x \in Pids : ~ps[x].active
    BY <1>5, <1>6, <1>9, ActiveIs DEF SomeActive
  <2> QED BY <1>4, <2>1, <2>5, <2>6
<1>10. CASE ActivePid(ps) = NoPid /\ Candidates(ps) = {}
  <2>1. paths' = ps /\ closed' = TRUE
    BY <1>4, <1>10 DEF TakeCandidate
  <2> QED BY <1>5, <1>10, <2>1
<1> QED BY <1>8, <1>9, <1>10

(* A path that the client creates takes a slot that no active path has.    *)
LEMMA CreatedFine ==
    ASSUME AllFine(paths), NEW a \in Addrs, NEW pid \in Room(paths)
    PROVE  /\ pid \in Pids /\ AllFine(CreatedOnClient(a, pid))
           /\ CreatedOnClient(a, pid)[pid].addr # NoAddr
           /\ CreatedOnClient(a, pid)[pid].dcid
           /\ Good(paths) => Good(CreatedOnClient(a, pid))
<1> DEFINE new == NewPath(a, TRUE, Tiny)
<1>1. Fine(new) /\ new.active = FALSE /\ new.addr # NoAddr /\ new.dcid = TRUE
  <2>1. Tiny \in Tiny .. Full /\ TRUE \in BOOLEAN
    BY DEF Tiny, Full
  <2> QED BY <2>1, NewPathFine
<1>2. CreatedOnClient(a, pid) = [paths EXCEPT ![pid] = new]
  BY DEF CreatedOnClient
<1> HIDE DEF new
<1> DEFINE ps == [paths EXCEPT ![pid] = new]
<1>3. /\ pid \in Pids /\ AllFine(ps) /\ ps[pid] = new
      /\ AllWork(paths) => AllWork(ps)
      /\ AllWork(paths) /\ Sane(paths, migrated) => Sane(ps, migrated)
  BY <1>1, PathAdded
<1> HIDE DEF ps
<1>4. CreatedOnClient(a, pid) = ps
  BY <1>2 DEF ps
<1> QED BY <1>1, <1>3, <1>4 DEF Good

LEMMA ProbePathKeeps ==
    ASSUME AllFine(paths), ProbePath
    PROVE  Keeps
<1>1. closed' = closed /\ migrated' = migrated
  BY DEF ProbePath
<1>2. ASSUME NEW ps, AllFine(ps), NEW pid \in Pids, Good(paths) => Sane(ps, migrated),
             paths' = [ps EXCEPT ![pid] = RequestValidation(ps[pid])]
      PROVE  Keeps
  <2>1. Fine(ps[pid])
    BY <1>2 DEF AllFine
  <2>2. Fine(RequestValidation(ps[pid])) /\ Alike(ps[pid], RequestValidation(ps[pid]))
    BY <2>1, RequestFine
  <2>3. AllFine(paths') /\ (Sane(ps, migrated) => Sane(paths', migrated))
    BY <1>2, <2>2, OneAlike
  <2> QED BY <1>1, <1>2, <2>3 DEF Keeps
<1>3. PICK a \in Addrs :
         \/ \E pid \in PidOf(paths, a) :
              paths' = [paths EXCEPT ![pid] = RequestValidation(paths[pid])]
         \/ \E pid \in Room(paths) :
              paths' = [CreatedOnClient(a, pid) EXCEPT ![pid] = RequestValidation(@)]
  BY DEF ProbePath
<1>4. CASE \E pid \in PidOf(paths, a) :
             paths' = [paths EXCEPT ![pid] = RequestValidation(paths[pid])]
  BY <1>2, <1>4 DEF PidOf, Slots, Good
<1>5. CASE \E pid \in Room(paths) :
             paths' = [CreatedOnClient(a, pid) EXCEPT ![pid] = RequestValidation(@)]
  <2>1. PICK pid \in Room(paths) :
           paths' = [CreatedOnClient(a, pid) EXCEPT ![pid] = RequestValidation(@)]
    BY <1>5
  <2> DEFINE ps == CreatedOnClient(a, pid)
  <2>2. paths' = [ps EXCEPT ![pid] = RequestValidation(ps[pid])]
    BY <2>1
  <2>3. pid \in Pids /\ AllFine(ps) /\ (Good(paths) => Sane(ps, migrated))
    BY CreatedFine DEF Good
  <2> HIDE DEF ps
  <2> QED BY <1>2, <2>2, <2>3
<1> QED BY <1>3, <1>4, <1>5

LEMMA MigrateKeeps ==
    ASSUME AllFine(paths), Migrate
    PROVE  Keeps
<1>1. closed' = closed /\ migrated' = migrated /\ ~is_server
  BY DEF Migrate
<1>2. ASSUME NEW ps, AllFine(ps), NEW pid \in Pids, paths' = SetActive(ps, pid),
             ps[pid].addr # NoAddr, ps[pid].dcid,
             Good(paths) => \A x \in Pids : ps[x].active => ActivePid(ps) = x
      PROVE  Keeps
  <2> DEFINE new == [SetActive(ps, pid) EXCEPT ![pid].dcid = TRUE]
  <2>1. MigrationEvent(ps, pid, migrated) = migrated
    BY <1>1 DEF MigrationEvent
  <2>2. /\ AllFine(new) /\ new = SetActive(ps, pid)
        /\ (\A x \in Pids : ps[x].active => ActivePid(ps) = x)
             => Sane(new, MigrationEvent(ps, pid, migrated))
    BY <1>2, ActiveSet
  <2> HIDE DEF new
  <2> QED BY <1>1, <1>2, <2>1, <2>2 DEF Keeps
<1>3. PICK a \in Addrs :
         \/ \E pid \in PidOf(paths, a) :
              /\ ~IsActive(paths[pid])
              /\ paths' = SetActive([paths EXCEPT ![pid].dcid = TRUE], pid)
         \/ \E pid \in Room(paths) : paths' = SetActive(CreatedOnClient(a, pid), pid)
  BY DEF Migrate
<1>4. ASSUME NEW pid \in PidOf(paths, a), ~IsActive(paths[pid]),
             paths' = SetActive([paths EXCEPT ![pid].dcid = TRUE], pid)
      PROVE  Keeps
  <2> DEFINE q == [paths[pid] EXCEPT !.dcid = TRUE]
             ps == [paths EXCEPT ![pid] = q]
  <2>1. pid \in Pids /\ paths[pid].addr # NoAddr
    BY DEF PidOf, Slots
  <2>2. Fine(paths[pid])
    BY <2>1 DEF AllFine
  <2>3. paths' = SetActive(ps, pid)
    BY <1>4
  <2>4. Fine(q) /\ Alike(paths[pid], q) /\ q.dcid = TRUE
    BY <2>2, DcidFine
  <2> HIDE DEF q
  <2>5. /\ AllFine(ps) /\ ps[pid] = q
        /\ AllWork(paths) /\ (q.active => IsActive(q)) => AllWork(ps)
    BY <2>1, <2>4, OneChanged
  <2>6. Sane(paths, migrated) => Sane(ps, migrated)
    BY <2>1, <2>4, OneAlike
  <2> HIDE DEF ps
  <2>7. Good(paths) => AllWork(ps) /\ Sane(ps, migrated)
    BY <1>4, <2>1, <2>4, <2>5, <2>6 DEF Good, AllWork, Alike
  <2>8. Good(paths) => \A x \in Pids : ps[x].active => ActivePid(ps) = x
    BY <2>5, <2>7, ActiveIs
  <2>9. ps[pid].addr # NoAddr /\ ps[pid].dcid
    BY <2>1, <2>4, <2>5 DEF Alike
  <2> QED BY <1>2, <2>1, <2>3, <2>5, <2>8, <2>9
<1>5. ASSUME NEW pid \in Room(paths), paths' = SetActive(CreatedOnClient(a, pid), pid)
      PROVE  Keeps
  <2> DEFINE ps == CreatedOnClient(a, pid)
  <2>1. /\ pid \in Pids /\ AllFine(ps) /\ ps[pid].addr # NoAddr /\ ps[pid].dcid
        /\ Good(paths) => Good(ps)
    BY CreatedFine
  <2>2. paths' = SetActive(ps, pid)
    BY <1>5
  <2> HIDE DEF ps
  <2>3. Good(paths) => \A x \in Pids : ps[x].active => ActivePid(ps) = x
    BY <2>1, ActiveIs DEF Good
  <2> QED BY <1>2, <2>1, <2>2, <2>3
<1> QED BY <1>3, <1>4, <1>5

LEMMA RetireDcidKeeps ==
    ASSUME AllFine(paths), RetireDcid
    PROVE  Keeps
<1>1. closed' = closed /\ migrated' = migrated
  BY DEF RetireDcid
<1>2. CASE paths' = paths
  BY <1>1, <1>2 DEF Keeps, Good
<1>3. ASSUME NEW pid \in Slots(paths), paths' = [paths EXCEPT ![pid].dcid = spare > 0]
      PROVE  Keeps
  <2> DEFINE d == spare > 0
             q == [paths[pid] EXCEPT !.dcid = d]
  <2>1. pid \in Pids /\ d \in BOOLEAN
    BY DEF Slots
  <2>2. Fine(paths[pid])
    BY <2>1 DEF AllFine
  <2>3. paths' = [paths EXCEPT ![pid] = q]
    BY <1>3
  <2> HIDE DEF d
  <2>4. Fine(q) /\ Alike(paths[pid], q)
    BY <2>1, <2>2, DcidFine
  <2> HIDE DEF q
  <2>5. AllFine(paths') /\ (Sane(paths, migrated) => Sane(paths', migrated))
    BY <2>1, <2>3, <2>4, OneAlike
  <2> QED BY <1>1, <2>5 DEF Keeps, Good
<1> QED BY <1>2, <1>3 DEF RetireDcid

----------------------------------------------------------------------------
LEMMA InitIInv == Init => IInv
<1> SUFFICES ASSUME Init PROVE IInv
  OBVIOUS
<1> DEFINE new == NewPath(FirstAddr, TRUE, Tiny)
           first == [new EXCEPT !.state = Validated, !.active = TRUE, !.verified = TRUE]
<1>1. Tiny \in Tiny .. Full /\ TRUE \in BOOLEAN /\ FALSE \in BOOLEAN
  BY DEF Tiny, Full
<1>2. /\ first \in PathType /\ first.active /\ first.addr = FirstAddr
      /\ first.state = Validated /\ first.dcid /\ first.verified
  <2> DEFINE a == [new EXCEPT !.state = Validated]
             b == [a EXCEPT !.active = TRUE]
  <2>1. new \in PathType /\ new.addr = FirstAddr /\ new.dcid = TRUE
    BY <1>1, PathAssumption DEF NewPath, PathType, Unknown, Failed, Validated
  <2>2. first = [b EXCEPT !.verified = TRUE]
    BY <2>1 DEF PathType
  <2> HIDE DEF new, first
  <2>3. /\ a \in PathType /\ a.addr = new.addr /\ a.dcid = new.dcid
        /\ a.state = Validated
    BY <2>1 DEF PathType, Failed, Validated
  <2> HIDE DEF a
  <2>4. b \in PathType /\ b.addr = a.addr /\ b.dcid = a.dcid /\ b.state = a.state
    BY <2>3 DEF PathType
  <2>5. b.active = TRUE
    BY <2>3 DEF PathType
  <2> HIDE DEF b
  <2>6. /\ first \in PathType /\ first.addr = b.addr /\ first.dcid = b.dcid
        /\ first.state = b.state /\ first.active = b.active
    BY <2>2, <2>4 DEF PathType
  <2>7. first.verified = TRUE
    BY <2>2, <2>4 DEF PathType
  <2> QED BY <2>1, <2>3, <2>4, <2>5, <2>6, <2>7
<1>3. FirstAddr # NoAddr /\ migrated = FirstAddr
  BY PathAssumption DEF NoAddr, Init
<1>4. paths = [p \in Pids |-> IF p = 0 THEN first ELSE EmptySlot]
  BY DEF Init
<1> HIDE DEF first
<1>5. Fine(first) /\ IsActive(first) /\ Reported(first, migrated)
  BY <1>2, <1>3 DEF Fine, IsActive, Working, Reported, GoesOn, UnderValidation,
                    Validating, ValidatingMTU, Validated, Failed
<1>6. EmptySlot \in PathType
  BY <1>1 DEF EmptySlot, NewPath, PathType, Unknown, Failed, Validated
<1>7. ~EmptySlot.active /\ EmptySlot.state = Unknown
  BY DEF EmptySlot, NewPath
<1>8. Fine(EmptySlot) /\ Reported(EmptySlot, migrated)
  BY <1>6, <1>7 DEF Fine, Reported, GoesOn, UnderValidation, Unknown, Validating, ValidatingMTU
<1>9. 0 \in Pids
  BY PathAssumption DEF Pids
<1>10. \A p \in Pids : paths[p] = IF p = 0 THEN first ELSE EmptySlot
  BY <1>4
<1>11. \A p \in Pids : paths[p].active <=> p = 0
  BY <1>2, <1>7, <1>10
<1>12. paths \in [Pids -> PathType]
  BY <1>2, <1>4, <1>6
<1>13. AllFine(paths) /\ AllWork(paths)
  BY <1>5, <1>7, <1>8, <1>10, <1>12 DEF AllFine, AllWork
<1>14. Sane(paths, migrated)
  BY <1>5, <1>8, <1>9, <1>10, <1>11 DEF Sane, SomeActive
<1>15. ~closed
  BY DEF Init
<1> QED BY <1>13, <1>14, <1>15 DEF IInv

(* No step follows the one that closes the connection.                     *)
LEMMA StepIInv == IInv /\ [Next]_vars => IInv'
<1> SUFFICES ASSUME IInv, [Next]_vars PROVE IInv'
  OBVIOUS
<1>1. CASE UNCHANGED vars
  BY <1>1 DEF vars, IInv, AllFine, AllWork, Sane, Reported, SomeActive, Candidates
<1>2. CASE Next
  <2>1. AllFine(paths)
    BY DEF IInv
  <2>2. ~closed /\ is_server' = is_server /\ (Noted \/ UNCHANGED <<paths, limbo>>)
    <3>1. CASE RecvOther \/ RecvPathChallenge
      <4>1. ~closed /\ is_server' = is_server
        BY <3>1 DEF RecvOther, RecvPathChallenge
      <4>2. ASSUME NEW ps, NEW n, NEW pid, NEW probing, NEW newest, NEW m,
                   Finish(ps, n, pid, probing, newest, m)
            PROVE  Noted
        BY <4>2 DEF Finish
      <4> QED BY <3>1, <4>1, <4>2 DEF RecvOther, RecvPathChallenge
    <3>2. CASE RecvPathResponse
      <4>1. ~closed
        BY <3>2 DEF RecvPathResponse
      <4> QED BY <2>1, <3>2, <4>1, RecvPathResponseKeeps
    <3>3. CASE RecvNewConnectionId
      <4>1. ~closed /\ is_server' = is_server
        BY <3>3, Zenon DEF RecvNewConnectionId
      <4> QED BY <2>1, <3>3, <4>1, RecvNewConnectionIdKeeps
    <3>4. CASE SendProbe \/ SendOther \/ OnTimeout \/ ProbePath \/ Migrate \/ RetireDcid
      BY <3>4 DEF SendProbe, SendOther, OnTimeout, ProbePath, Migrate, RetireDcid
    <3> QED BY <1>2, <3>1, <3>2, <3>3, <3>4 DEF Next
  <2>3. /\ AllFine(paths')
        /\ Good(paths) => \/ ~closed' /\ Sane(paths', migrated')
                          \/ closed' /\ Candidates(paths') = {}
    <3>1. Keeps \/ OnTimeout
      BY <1>2, <2>1, RecvOtherKeeps, RecvPathChallengeKeeps, RecvPathResponseKeeps,
         RecvNewConnectionIdKeeps, SendProbeKeeps, SendOtherKeeps,
         ProbePathKeeps, MigrateKeeps, RetireDcidKeeps DEF Next
    <3> QED BY <2>1, <2>2, <3>1, OnTimeoutKeeps DEF Keeps
  <2>4. AllFine(paths)'
    BY <2>3 DEF AllFine
  <2>5. ASSUME ~limbo' PROVE AllWork(paths)' /\ Good(paths)
    <3>1. ~limbo
      BY <2>2, <2>5 DEF Noted
    <3>2. AllWork(paths) /\ Sane(paths, migrated)
      BY <2>2, <3>1 DEF IInv
    <3>3. CASE Noted
      BY <2>5, <3>2, <3>3 DEF Noted, AllWork, Good
    <3>4. CASE UNCHANGED <<paths, limbo>>
      BY <3>2, <3>4 DEF AllWork, Good
    <3> QED BY <2>2, <3>3, <3>4
  <2>6. Sane(paths', migrated') => Sane(paths, migrated)'
    BY <2>2 DEF Sane, SomeActive, Reported
  <2>7. Candidates(paths') = {} => (Candidates(paths) = {})'
    BY DEF Candidates
  <2> QED BY <2>3, <2>4, <2>5, <2>6, <2>7 DEF IInv
<1> QED BY <1>1, <1>2

(* What the invariant says of a state.                                     *)
LEMMA IInvImplies ==
    IInv => OneActive /\ MigrationReported /\ ValidationGoesOn /\ ClosedWhenStuck
<1> SUFFICES ASSUME IInv
             PROVE  OneActive /\ MigrationReported /\ ValidationGoesOn /\ ClosedWhenStuck
  OBVIOUS
<1>1. ValidationGoesOn
  BY DEF IInv, AllFine, Fine, GoesOn, ValidationGoesOn, Slots
<1>2. CASE limbo
  BY <1>1, <1>2 DEF OneActive, MigrationReported, ClosedWhenStuck
<1>3. CASE ~limbo /\ closed
  <2>1. ActivePids(paths) = {}
    BY <1>3 DEF IInv, Candidates, ActivePids, IsUsable
  <2>2. OneActive
    BY <2>1, FS_EmptySet DEF OneActive
  <2> QED BY <1>1, <1>3, <2>2 DEF IInv, MigrationReported, ClosedWhenStuck
<1>4. CASE ~limbo /\ ~closed
  <2>1. Sane(paths, migrated) /\ AllFine(paths) /\ AllWork(paths)
    BY <1>4 DEF IInv
  <2>2. ActivePids(paths) = {p \in Pids : paths[p].active}
    BY <2>1, ActiveIs
  <2>3. PICK p \in Pids : ActivePids(paths) = {p}
    BY <2>1, <2>2 DEF Sane, SomeActive
  <2>4. OneActive
    BY <2>3, FS_Singleton DEF OneActive
  <2>5. MigrationReported
    BY <2>1, <2>2 DEF MigrationReported, Sane, Reported
  <2> QED BY <1>1, <1>4, <2>4, <2>5 DEF ClosedWhenStuck
<1> QED BY <1>2, <1>3, <1>4

(* In every execution, whatever packets arrive on which paths and whatever *)
(* the application asks for: a validation that has begun goes on until it  *)
(* succeeds or fails; and as long as no path has been marked active that   *)
(* active() denies, there is at most one active path, a server has         *)
(* reported the validated path that it sends on, and the connection is     *)
(* given up only when no path is usable.                                   *)
THEOREM PathsSafe ==
    Spec => [](OneActive /\ MigrationReported /\ ValidationGoesOn /\ ClosedWhenStuck)
<1> QED BY InitIInv, StepIInv, IInvImplies, PTL DEF Spec
============================================================================
