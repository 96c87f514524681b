------------------------- MODULE SigningFence_proofs -------------------------
(***************************************************************************)
(* Proofs about SigningFence, for all sets of fences and connections, all  *)
(* time bounds, and all clock offsets within the safety margin.            *)
(***************************************************************************)
EXTENDS SigningFence, TLAPS

-----------------------------------------------------------------------------
(* A clock never differs from another by more than the safety margin.      *)
LEMMA ClockSkew ==
  ASSUME TypeOK, NEW p \in Fences \cup {Operator}, NEW q \in Fences \cup {Operator}
  PROVE  /\ Clock(p) \in Nat /\ Clock(q) \in Nat
         /\ Clock(p) >= Clock(q) - Margin
BY BoundsAssumption, SkewAssumption DEF TypeOK, Clock

(* A deadline no later than one that is covered is covered.                *)
LEMMA CoveredEarlier ==
  ASSUME TypeOK, NEW f \in Fences, NEW d \in Int, NEW e \in Int,
         Covered(f, d), e <= d
  PROVE  Covered(f, e)
BY BoundsAssumption, ClockSkew DEF TypeOK, Covered

(* The initial state satisfies the inductive invariant.                    *)
LEMMA InitIndInv == Init => IndInv
<1> SUFFICES ASSUME Init PROVE IndInv
  OBVIOUS
<1> USE BoundsAssumption, IdentityAssumption
<1>1. TypeOK
  BY DEF Init, TypeOK, NoLease, FreeConn, HandoverEnds, Clients, NoClient
<1>2. SnapshotInv /\ MessageInv /\ HolderInv /\ GrantInv /\ HandoverInv
  BY DEF Init, SnapshotInv, MessageInv, HolderInv, GrantInv, HandoverInv, NoLease, HandoverEnds
<1>3. ServingInv /\ AuthorityUnderLease
  BY DEF Init, ServingInv, AuthorityUnderLease, FreeConn
<1> QED
  BY <1>1, <1>2, <1>3 DEF IndInv
-----------------------------------------------------------------------------
(* Every action preserves the types.  The one conjunct that is not local   *)
(* is the authority deadline, which is a natural number because a renewal  *)
(* in flight has passed validDuration.                                     *)
LEMMA TypeStep == IndInv /\ [Next]_vars => TypeOK'
<1> SUFFICES ASSUME IndInv, [Next]_vars PROVE TypeOK'
  OBVIOUS
<1> USE BoundsAssumption, IdentityAssumption
        DEF TypeOK, NoLease, FreeConn, NoClient, Clients, Clock, Lesser, GrantDeadline
<1> TypeOK
  BY DEF IndInv
<1>1. CASE Tick
  BY <1>1 DEF Tick, clockVars, apiVars, podVars, renewVars, authVars, connVars
<1>2. CASE ClientStops \/ ClientStarts
  <2>1. CASE ClientStops
    BY <2>1 DEF ClientStops, clockVars, apiVars, podVars, renewVars, authVars, connVars
  <2>2. CASE ClientStarts
    BY <2>2 DEF ClientStarts, clockVars, apiVars, podVars, renewVars, authVars, connVars
  <2> QED
    BY <1>2, <2>1, <2>2
<1>3. CASE \E m \in net : ApiPatch(m)
  BY <1>3 DEF ApiPatch, clockVars, apiVars, podVars, renewVars, authVars, connVars
<1>4. CASE \E m \in net : LosePatch(m)
  BY <1>4 DEF LosePatch, clockVars, apiVars, podVars, renewVars, authVars, connVars
<1>5. CASE HandoverNext
  <2>1. CASE HandoverCheck
    BY <2>1 DEF HandoverCheck, clockVars, apiVars, podVars, renewVars, authVars, connVars
  <2>2. CASE HandoverSend
    BY <2>2 DEF HandoverSend, HandoverEnds, clockVars, apiVars, podVars, renewVars, authVars, connVars
  <2>3. CASE HandoverReadback
    BY <2>3 DEF HandoverReadback, HandoverEnds, clockVars, apiVars, podVars, renewVars, authVars, connVars
  <2>4. CASE \E told \in BOOLEAN : HandoverPatch(told)
    <3> PICK told \in BOOLEAN : HandoverPatch(told)
      BY <2>4
    <3>1. CASE lease = op.seen
      BY <3>1 DEF HandoverPatch, HandoverEnds, clockVars, apiVars, podVars, renewVars, authVars, connVars
    <3>2. CASE lease # op.seen
      BY <3>2 DEF HandoverPatch, HandoverEnds, clockVars, apiVars, podVars, renewVars, authVars, connVars
    <3> QED
      BY <3>1, <3>2
  <2> QED
    BY <1>5, <2>1, <2>2, <2>3, <2>4 DEF HandoverNext
<1>6. CASE \E f \in Fences : PodRemove(f)
  BY <1>6 DEF PodRemove, clockVars, apiVars, podVars, renewVars, authVars, connVars
<1>7. CASE \E f \in Fences : Start(f)
  BY <1>7 DEF Start, clockVars, apiVars, podVars, renewVars, authVars, connVars
<1>8. CASE \E f \in Fences : Crash(f)
  BY <1>8 DEF Crash, ProcessEnds, RenewalEnds, clockVars, apiVars, podVars, renewVars, authVars, connVars
<1>9. CASE \E f \in Fences : Exit(f)
  BY <1>9 DEF Exit, ProcessEnds, RenewalEnds, clockVars, apiVars, podVars, renewVars, authVars, connVars
<1>10. CASE \E f \in Fences : RequestFails(f)
  <2> PICK f \in Fences : RequestFails(f)
    BY <1>10
  <2>1. CASE listening[f]
    <3>1. /\ RenewalEnds(f, "stopped")
          /\ fenced' = [fenced EXCEPT ![f] = TRUE]
          /\ UNCHANGED <<listening, deadline, armed, age, done, pinned, connVars>>
          /\ UNCHANGED <<clockVars, apiVars, podVars, op>>
      BY <2>1 DEF RequestFails, RenewError
    <3> QED
      BY <3>1 DEF RenewalEnds, clockVars, apiVars, podVars, renewVars, authVars, connVars
  <2>2. CASE ~listening[f]
    <3>1. ProcessEnds(f) /\ UNCHANGED <<clockVars, apiVars, podVars, op>>
      BY <2>2 DEF RequestFails, RenewError
    <3> QED
      BY <3>1 DEF ProcessEnds, RenewalEnds, clockVars, apiVars, podVars, renewVars, authVars, connVars
  <2> QED
    BY <2>1, <2>2
<1>11. CASE \E f \in Fences : Refuse(f)
  <2> PICK f \in Fences : Refuse(f)
    BY <1>11
  <2>1. CASE listening[f]
    <3>1. /\ RenewalEnds(f, "stopped")
          /\ fenced' = [fenced EXCEPT ![f] = TRUE]
          /\ UNCHANGED <<listening, deadline, armed, age, done, pinned, connVars>>
          /\ UNCHANGED <<clockVars, apiVars, podVars, op>>
      BY <2>1 DEF Refuse, RenewError
    <3> QED
      BY <3>1 DEF RenewalEnds, clockVars, apiVars, podVars, renewVars, authVars, connVars
  <2>2. CASE ~listening[f]
    <3>1. ProcessEnds(f) /\ UNCHANGED <<clockVars, apiVars, podVars, op>>
      BY <2>2 DEF Refuse, RenewError
    <3> QED
      BY <3>1 DEF ProcessEnds, RenewalEnds, clockVars, apiVars, podVars, renewVars, authVars, connVars
  <2> QED
    BY <2>1, <2>2
<1>12. CASE \E f \in Fences : PodGet(f)
  BY <1>12 DEF PodGet, clockVars, apiVars, podVars, renewVars, authVars, connVars
<1>13. CASE \E f \in Fences : LeaseGet(f)
  BY <1>13 DEF LeaseGet, clockVars, apiVars, podVars, renewVars, authVars, connVars
<1>14. CASE \E f \in Fences : SendPatch(f)
  BY <1>14 DEF SendPatch, clockVars, apiVars, podVars, renewVars, authVars, connVars
<1>15. CASE \E f \in Fences : RenewTick(f)
  BY <1>15 DEF RenewTick, clockVars, apiVars, podVars, renewVars, authVars, connVars
<1>16. CASE \E f \in Fences : StartServing(f)
  BY <1>16 DEF StartServing, MayServe, SetAuthorityDeadline, RenewalEnds, clockVars, apiVars, podVars, renewVars, authVars, connVars
<1>17. CASE \E f \in Fences : Renewed(f)
  BY <1>17 DEF Renewed, SetAuthorityDeadline, RenewalEnds, IndInv, GrantInv, ValidDuration, clockVars, apiVars, podVars, renewVars, authVars, connVars
<1>18. CASE \E f \in Fences : Watchdog(f)
  BY <1>18 DEF Watchdog, clockVars, apiVars, podVars, renewVars, authVars, connVars
<1>19. CASE \E f \in Fences : TripRequested(f)
  BY <1>19 DEF TripRequested, clockVars, apiVars, podVars, renewVars, authVars, connVars
<1>20. CASE \E f \in Fences : TripClose(f)
  BY <1>20 DEF TripClose, clockVars, apiVars, podVars, renewVars, authVars, connVars
<1>21. CASE \E f \in Fences : ConnNext(f)
  <2> PICK f \in Fences : ConnNext(f)
    BY <1>21
  <2>1. CASE \E s \in Clients : AdmitSource(f, s)
    <3> PICK s \in Clients : AdmitSource(f, s)
      BY <2>1
    <3>1. Address[s] \in Clients
      BY AddressAssumption
    <3> QED
      BY <3>1 DEF AdmitSource, clockVars, apiVars, podVars, renewVars, authVars, connVars
  <2>2. CASE DropAccepted(f)
    BY <2>2 DEF DropAccepted, clockVars, apiVars, podVars, renewVars, authVars, connVars
  <2>3. CASE \E c \in Conns : Register(f, c)
    BY <2>3 DEF Register, clockVars, apiVars, podVars, renewVars, authVars, connVars
  <2>4. CASE \E c \in Conns : ProxyDeadline(f, c)
    <3> PICK c \in Conns : ProxyDeadline(f, c)
      BY <2>4
    <3>1. ConnectionDeadline(f) \in Nat
      BY DEF ConnectionDeadline
    <3>2. conns[f][c].src \in Clients \cup {NoClient}
      OBVIOUS
    <3> QED
      BY <3>1, <3>2 DEF ProxyDeadline, clockVars, apiVars, podVars, renewVars, authVars, connVars
  <2>5. CASE \E c \in Conns : ProxyDial(f, c)
    <3> PICK c \in Conns : ProxyDial(f, c)
      BY <2>5
    <3>1. conns[f][c].src \in Clients \cup {NoClient} /\ conns[f][c].deadline \in Nat
      OBVIOUS
    <3> QED
      BY <3>1 DEF ProxyDial, clockVars, apiVars, podVars, renewVars, authVars, connVars
  <2>6. CASE \E c \in Conns : ProxyReturn(f, c)
    BY <2>6 DEF ProxyReturn, clockVars, apiVars, podVars, renewVars, authVars, connVars
  <2> QED
    BY <2>1, <2>2, <2>3, <2>4, <2>5, <2>6 DEF ConnNext
<1>22. CASE UNCHANGED vars
  BY <1>22 DEF vars, clockVars, apiVars, podVars, renewVars, authVars, connVars
<1> QED
  BY <1>1, <1>2, <1>3, <1>4, <1>5, <1>6, <1>7, <1>8, <1>9, <1>10, <1>11, <1>12, <1>13, <1>14, <1>15, <1>16, <1>17, <1>18, <1>19, <1>20, <1>21, <1>22
  DEF Next, NetNext, RenewNext, TripNext, PodNext
-----------------------------------------------------------------------------
(* The conjuncts about the Lease and the renewal threads, and those about  *)
(* the serving proxies.                                                    *)
LeasePart == SnapshotInv /\ MessageInv /\ HolderInv /\ GrantInv /\ HandoverInv
ServePart == ServingInv /\ AuthorityUnderLease

(* What MessageInv says of one PATCH on the wire.                          *)
LEMMA MessageFacts ==
  ASSUME IndInv, NEW m \in net
  PROVE  /\ m.from \in Fences /\ m.inc \in Nat /\ m.rv \in Nat /\ m.at \in Nat
         /\ m.rv <= lease.rv
         /\ m.at <= Clock(m.from)
         /\ m.inc <= starts[m.from]
         /\ m.inc = starts[m.from] =>
              /\ pc[m.from] \in {"patch", "stopped", "down"}
              /\ pc[m.from] = "patch" => m.at = sentAt[m.from] /\ resp[m.from] = "none"
              /\ \A n \in net : n.from = m.from /\ n.inc = m.inc => n = m
         /\ m.rv = lease.rv =>
              /\ m.holder = lease.holder
              /\ lease.holder = m.from => lease.renewed <= m.at
              /\ lease.holder \notin {None, m.from} => Clock(m.from) >= lease.renewed + duration
<1>1. m.from \in Fences /\ m.inc \in Nat /\ m.rv \in Nat /\ m.at \in Nat
  BY DEF IndInv, TypeOK
<1> QED
  BY <1>1 DEF IndInv, MessageInv

(* The actions of the proxies and the Pods do not touch what LeasePart is  *)
(* about.                                                                  *)
LEMMA LeaseFrame ==
  ASSUME LeasePart,
         UNCHANGED <<now, offset, lease, duration, net, starts, pc, seen, sentAt, resp, op>>
  PROVE  LeasePart'
BY DEF LeasePart, SnapshotInv, MessageInv, HolderInv, GrantInv, HandoverInv, Clock,
       Covered, GrantDeadline, ValidDuration

(* A renewal thread that gives up, or has used its grant, holds no promise *)
(* about the Lease any more.                                               *)
LEMMA LeaseRenewalEnds ==
  ASSUME IndInv, NEW f \in Fences, NEW where \in {"down", "stopped", "wait"},
         RenewalEnds(f, where),
         where = "wait" => pc[f] = "patch" /\ resp[f] = "ok",
         UNCHANGED <<now, offset, lease, duration, net, starts, op>>
  PROVE  LeasePart'
<1> USE DEF IndInv, TypeOK, RenewalEnds
<1>1. SnapshotInv'
  BY DEF SnapshotInv
<1>2. MessageInv'
  BY DEF MessageInv, Clock
<1>3. HolderInv' /\ HandoverInv'
  BY DEF HolderInv, HandoverInv, Clock
<1>4. GrantInv'
  BY DEF GrantInv, ValidDuration, Covered, GrantDeadline, Clock
<1> QED
  BY <1>1, <1>2, <1>3, <1>4 DEF LeasePart

(* Time only takes authority away.                                         *)
LEMMA LeaseTick == IndInv /\ Tick => LeasePart'
<1> SUFFICES ASSUME IndInv, Tick PROVE LeasePart'
  OBVIOUS
<1> USE BoundsAssumption DEF IndInv, TypeOK, Tick, apiVars, podVars, renewVars
<1>1. SnapshotInv'
  BY DEF SnapshotInv
<1>2. MessageInv'
  BY DEF MessageInv, Clock
<1>3. HolderInv' /\ HandoverInv'
  BY DEF HolderInv, HandoverInv, Clock
<1>4. GrantInv'
  BY DEF GrantInv, ValidDuration, Covered, GrantDeadline, Clock
<1> QED
  BY <1>1, <1>2, <1>3, <1>4 DEF LeasePart
(* A new incarnation has sent nothing yet.                                 *)
LEMMA LeaseStart ==
  ASSUME IndInv, NEW f \in Fences, Start(f)
  PROVE  LeasePart'
<1> USE BoundsAssumption, IdentityAssumption DEF IndInv, TypeOK, Start, clockVars, apiVars, podVars, renewVars
<1>1. SnapshotInv'
  BY DEF SnapshotInv
<1>2. MessageInv'
  <2> SUFFICES ASSUME NEW m \in net
               PROVE  /\ m.inc <= starts'[m.from]
                      /\ m.inc = starts'[m.from] => m.from # f
    <3>1. net' = net /\ UNCHANGED <<now, offset, lease, duration, sentAt, resp>>
      OBVIOUS
    <3>2. \A g \in Fences \ {f} : pc'[g] = pc[g] /\ starts'[g] = starts[g]
      OBVIOUS
    <3> QED
      BY <3>1, <3>2, MessageFacts DEF MessageInv, Clock
  <2>1. m.from \in Fences /\ m.inc \in Nat /\ m.inc <= starts[m.from]
    BY MessageFacts
  <2>2. starts[m.from] \in Nat /\ starts[f] \in Nat /\ starts' = [starts EXCEPT ![f] = @ + 1]
    BY <2>1
  <2> QED
    BY <2>1, <2>2
<1>3. HolderInv' /\ HandoverInv'
  BY DEF HolderInv, HandoverInv, Clock
<1>4. GrantInv'
  BY DEF GrantInv, ValidDuration, Covered, GrantDeadline, Clock
<1> QED
  BY <1>1, <1>2, <1>3, <1>4 DEF LeasePart

(* Before the GET of the Lease nothing is known about it.                  *)
LEMMA LeasePodGet ==
  ASSUME IndInv, NEW f \in Fences, PodGet(f) \/ RenewTick(f)
  PROVE  LeasePart'
<1> USE BoundsAssumption, IdentityAssumption DEF IndInv, TypeOK, PodGet, RenewTick, clockVars, apiVars, podVars, renewVars
<1>1. SnapshotInv'
  BY DEF SnapshotInv
<1>2. MessageInv'
  <2>1. /\ net' = net /\ UNCHANGED <<now, offset, lease, duration, starts, sentAt, resp>>
        /\ \A g \in Fences \ {f} : pc'[g] = pc[g]
        /\ pc[f] \in {"podget", "wait"}
    OBVIOUS
  <2> HIDE DEF IndInv, TypeOK, PodGet, RenewTick
  <2>2. \A m \in net : m.inc = starts[m.from] => m.from \in Fences \ {f}
    BY <2>1, MessageFacts
  <2> QED
    BY <2>1, <2>2, MessageFacts DEF MessageInv, Clock
<1>3. HolderInv' /\ HandoverInv'
  BY DEF HolderInv, HandoverInv, Clock
<1>4. GrantInv'
  BY DEF GrantInv, ValidDuration, Covered, GrantDeadline, Clock
<1> QED
  BY <1>1, <1>2, <1>3, <1>4 DEF LeasePart

(* The GET takes the snapshot.                                             *)
LEMMA LeaseLeaseGet ==
  ASSUME IndInv, NEW f \in Fences, LeaseGet(f)
  PROVE  LeasePart'
<1> USE BoundsAssumption, IdentityAssumption DEF IndInv, TypeOK, LeaseGet, clockVars, apiVars, podVars, renewVars
<1>1. SnapshotInv'
  BY DEF SnapshotInv
<1>2. MessageInv'
  BY DEF MessageInv, Clock
<1>3. HolderInv' /\ HandoverInv'
  BY DEF HolderInv, HandoverInv, Clock
<1>4. GrantInv'
  BY DEF GrantInv, ValidDuration, Covered, GrantDeadline, Clock
<1> QED
  BY <1>1, <1>2, <1>3, <1>4 DEF LeasePart

(* The checks of acquireOrRenew are what MessageInv says of a PATCH.       *)
LEMMA LeaseSendPatch ==
  ASSUME IndInv, NEW f \in Fences, SendPatch(f)
  PROVE  LeasePart'
<1> USE BoundsAssumption, IdentityAssumption DEF IndInv, TypeOK, SendPatch, Refused, HeldByOther, Expired, NoLease, clockVars, apiVars, podVars, renewVars
<1>1. SnapshotInv'
  BY DEF SnapshotInv
<1>2. MessageInv'
  <2> DEFINE new == [from |-> f, inc |-> starts[f], rv |-> seen[f].rv,
                     holder |-> seen[f].holder, at |-> Clock(f)]
  <2>1. /\ net' = net \cup {new}
        /\ sentAt' = [sentAt EXCEPT ![f] = Clock(f)]
        /\ pc[f] = "decide" /\ ~Refused(f)
        /\ pc' = [pc EXCEPT ![f] = "patch"]
        /\ resp' = [resp EXCEPT ![f] = "none"]
        /\ UNCHANGED <<now, offset, lease, duration, starts, seen>>
    OBVIOUS
  <2>2. ASSUME NEW m \in net, m.from = f, m.inc = starts[f]
        PROVE  FALSE
    <3> HIDE DEF IndInv, TypeOK, SendPatch
    <3>1. pc[f] \in {"patch", "stopped", "down"}
      BY <2>2, MessageFacts
    <3> QED
      BY <3>1, <2>1
  <2>3. Clock(f) \in Nat
    BY ClockSkew
  <2>4. seen[f].rv <= lease.rv /\ (seen[f].rv = lease.rv => seen[f] = lease)
    BY <2>1 DEF SnapshotInv
  <2>5. /\ new.holder = f /\ new.rv = lease.rv => lease.renewed <= Clock(f)
        /\ new.holder \notin {None, f} => Clock(f) >= seen[f].renewed + duration
    BY <2>1, <2>4 DEF HolderInv, Refused, HeldByOther, Expired
  <2>6. ASSUME NEW m \in net', m # new
        PROVE  m \in net /\ (m.from = f => m.inc # starts[f])
    BY <2>1, <2>2, <2>6
  <2>7. ASSUME NEW m \in net' PROVE
          /\ m.rv <= lease.rv
          /\ m.at <= Clock(m.from)
          /\ m.inc <= starts[m.from]
          /\ m.rv = lease.rv =>
               /\ m.holder = lease.holder
               /\ lease.holder = m.from => lease.renewed <= m.at
               /\ lease.holder \notin {None, m.from} => Clock(m.from) >= lease.renewed + duration
    <3>1. CASE m = new
      BY <3>1, <2>3, <2>4, <2>5
    <3>2. CASE m # new
      BY <3>2, <2>6 DEF MessageInv
    <3> QED
      BY <3>1, <3>2
  <2>8. ASSUME NEW m \in net', m.inc = starts[m.from] PROVE
          /\ pc'[m.from] \in {"patch", "stopped", "down"}
          /\ pc'[m.from] = "patch" => m.at = sentAt'[m.from] /\ resp'[m.from] = "none"
          /\ \A n \in net' : n.from = m.from /\ n.inc = m.inc => n = m
    <3>1. CASE m = new
      BY <3>1, <2>1, <2>6
    <3>2. CASE m # new
      <4>1. m \in net /\ m.from # f
        BY <3>2, <2>6, <2>8
      <4>2. \A n \in net' : n.from = m.from => n \in net
        BY <4>1, <2>1
      <4> QED
        BY <4>1, <4>2, <2>1, <2>8 DEF MessageInv
    <3> QED
      BY <3>1, <3>2
  <2> HIDE DEF new
  <2> QED
    BY <2>1, <2>7, <2>8 DEF MessageInv, Clock
<1>3. HolderInv' /\ HandoverInv'
  BY DEF HolderInv, HandoverInv, Clock
<1>4. GrantInv'
  BY DEF GrantInv, ValidDuration, Covered, GrantDeadline, Clock
<1> QED
  BY <1>1, <1>2, <1>3, <1>4 DEF LeasePart

(* A lost PATCH.                                                           *)
LEMMA LeaseLosePatch ==
  ASSUME IndInv, NEW m \in net, LosePatch(m)
  PROVE  LeasePart'
<1> USE BoundsAssumption, IdentityAssumption DEF IndInv, TypeOK, LosePatch, clockVars, apiVars, podVars, renewVars
<1>1. SnapshotInv'
  BY DEF SnapshotInv
<1>2. MessageInv'
  BY DEF MessageInv, Clock
<1>3. HolderInv' /\ HandoverInv'
  BY DEF HolderInv, HandoverInv, Clock
<1>4. GrantInv'
  BY DEF GrantInv, ValidDuration, Covered, GrantDeadline, Clock
<1> QED
  BY <1>1, <1>2, <1>3, <1>4 DEF LeasePart

(* A PATCH that replaces another holder is applied only when that holder   *)
(* has nothing left: its sender saw the Lease expire, and the holder's own *)
(* clock is at most the safety margin behind the sender's.                 *)
LEMMA CoveredApiPatch ==
  ASSUME IndInv, NEW m \in net, ApiPatch(m),
         NEW f \in Fences, NEW d \in Int, Covered(f, d)
  PROVE  /\ Clock(f)' = Clock(f)
         /\ Clock(f) < d => lease'.holder = f /\ d <= lease'.renewed + duration' - Margin
<1>1. /\ UNCHANGED <<now, offset, duration>>
      /\ lease' = IF PatchMatches(m)
                  THEN [rv |-> lease.rv + 1, holder |-> m.from, renewed |-> m.at]
                  ELSE lease
  BY DEF ApiPatch, clockVars
<1>2. Clock(f)' = Clock(f)
  BY <1>1 DEF Clock
<1>3. CASE ~PatchMatches(m) \/ ~(Clock(f) < d)
  BY <1>1, <1>2, <1>3 DEF Covered
<1>4. CASE PatchMatches(m) /\ Clock(f) < d
  <2>1. lease.holder = f /\ d <= lease.renewed + duration - Margin
    BY <1>4 DEF Covered
  <2>2. /\ m.from \in Fences /\ m.at \in Nat
        /\ f = m.from => lease.renewed <= m.at
        /\ f # m.from => Clock(m.from) >= lease.renewed + duration
    BY <1>4, <2>1, MessageFacts, IdentityAssumption DEF PatchMatches
  <2>3. TypeOK /\ lease.renewed \in Nat /\ duration \in Nat /\ Margin \in Nat
    BY BoundsAssumption DEF IndInv, TypeOK
  <2>4. f = m.from
    <3> SUFFICES ASSUME f # m.from PROVE FALSE
      OBVIOUS
    <3>1. Clock(f) >= Clock(m.from) - Margin /\ Clock(f) \in Nat /\ Clock(m.from) \in Nat
      BY <2>2, <2>3, ClockSkew
    <3> QED
      BY <3>1, <2>1, <2>2, <2>3, <1>4
  <2> QED
    BY <1>1, <1>2, <1>4, <2>1, <2>2, <2>3, <2>4
<1> QED
  BY <1>3, <1>4

(* The API server applies or rejects a PATCH.                              *)
LEMMA LeaseApiPatch ==
  ASSUME IndInv, NEW m \in net, ApiPatch(m)
  PROVE  LeasePart'
<1> USE BoundsAssumption, IdentityAssumption DEF IndInv, TypeOK, ApiPatch, PatchMatches, clockVars, apiVars, podVars, renewVars
<1>1. SnapshotInv'
  BY DEF SnapshotInv
<1>2. MessageInv'
  BY DEF MessageInv, Clock
<1>3. HolderInv' /\ HandoverInv'
  <2>1. HandoverInv'
    BY DEF HandoverInv, Clock
  <2> HIDE DEF IndInv, TypeOK
  <2>2. m.from \in Fences /\ m.at <= Clock(m.from)
    BY MessageFacts
  <2>3. HolderInv'
    BY <2>2 DEF HolderInv, Clock, IndInv
  <2> QED
    BY <2>1, <2>3
<1>4. GrantInv'
  <2> HIDE DEF IndInv, TypeOK, ApiPatch, PatchMatches
  <2> SUFFICES ASSUME NEW f \in Fences, pc'[f] = "patch"
               PROVE  ValidDuration' /\ (resp'[f] = "ok" => Covered(f, GrantDeadline(f))')
    BY DEF GrantInv
  <2>1. /\ UNCHANGED <<now, offset, duration, pc, sentAt>>
        /\ pc[f] = "patch" /\ GrantDeadline(f)' = GrantDeadline(f)
    BY DEF ApiPatch, GrantDeadline, clockVars
  <2>2. ValidDuration'
    BY <2>1 DEF IndInv, GrantInv, ValidDuration
  <2>3. GrantDeadline(f) \in Int /\ Clock(f) \in Int /\ lease.rv \in Nat /\ duration \in Int /\ Margin \in Int
    BY BoundsAssumption DEF IndInv, TypeOK, GrantDeadline, Clock
  <2>4. CASE resp'[f] = resp[f]
    <3>1. resp[f] = "ok" => Covered(f, GrantDeadline(f))
      BY <2>1 DEF IndInv, GrantInv
    <3> QED
      BY <3>1, <2>1, <2>2, <2>3, <2>4, CoveredApiPatch DEF Covered
  <2>5. CASE resp'[f] # resp[f]
    <3>1. m.from = f /\ m.inc = starts[f]
      BY <2>5 DEF ApiPatch, IndInv, TypeOK
    <3>2. m.at = sentAt[f]
      BY <3>1, <2>1, MessageFacts
    <3>3. resp'[f] = "ok" => PatchMatches(m)
      BY <3>1, <2>1, MessageFacts DEF ApiPatch, IndInv, TypeOK
    <3>4. resp'[f] = "ok" => lease' = [rv |-> lease.rv + 1, holder |-> f, renewed |-> m.at]
      BY <3>1, <3>3 DEF ApiPatch
    <3> QED
      BY <3>2, <3>4, <2>1, <2>2, <2>3 DEF Covered, GrantDeadline
  <2> QED
    BY <2>4, <2>5
<1> QED
  BY <1>1, <1>2, <1>3, <1>4 DEF LeasePart

(* The handover script clears the holder only when it has nothing left.    *)
LEMMA CoveredHandover ==
  ASSUME IndInv, HandoverNext,
         NEW f \in Fences, NEW d \in Int, Covered(f, d)
  PROVE  /\ Clock(f)' = Clock(f) /\ UNCHANGED <<now, offset, duration>>
         /\ Clock(f) < d => lease' = lease
<1>1. UNCHANGED <<now, offset, duration>>
  BY DEF HandoverNext, HandoverCheck, HandoverSend, HandoverReadback, HandoverPatch, clockVars, apiVars
<1>2. CASE lease' = lease
  BY <1>1, <1>2 DEF Clock
<1>3. CASE lease' # lease
  <2>1. lease = op.seen /\ op.pc = "sent"
    BY <1>3 DEF HandoverNext, HandoverCheck, HandoverSend, HandoverReadback, HandoverPatch, apiVars
  <2>2. lease.holder # None /\ Clock(Operator) >= lease.renewed + duration + HandoverMargin
    BY <2>1 DEF IndInv, HandoverInv
  <2>3. TypeOK /\ lease.renewed \in Nat /\ duration \in Nat /\ Margin \in Nat /\ HandoverMargin \in Nat
    BY BoundsAssumption DEF IndInv, TypeOK
  <2>4. Clock(f) >= Clock(Operator) - Margin /\ Clock(f) \in Nat /\ Clock(Operator) \in Nat
    BY <2>3, ClockSkew
  <2>5. ~(Clock(f) < d)
    BY <2>2, <2>3, <2>4 DEF Covered
  <2> QED
    BY <1>1, <2>5 DEF Clock
<1> QED
  BY <1>2, <1>3

(* The handover script.                                                    *)
LEMMA LeaseHandover ==
  ASSUME IndInv, HandoverNext
  PROVE  LeasePart'
<1> USE BoundsAssumption, IdentityAssumption DEF IndInv, TypeOK, HandoverNext, HandoverCheck, HandoverSend, HandoverPatch, HandoverReadback, HandoverEnds, SafelyExpired, clockVars, apiVars, podVars, renewVars
<1>1. SnapshotInv'
  BY DEF SnapshotInv
<1>2. MessageInv'
  BY DEF MessageInv, Clock
<1>3. HolderInv' /\ HandoverInv'
  BY DEF HolderInv, HandoverInv, Clock
<1>4. GrantInv'
  <2> HIDE DEF IndInv, TypeOK, HandoverNext
  <2> SUFFICES ASSUME NEW f \in Fences, pc'[f] = "patch"
               PROVE  ValidDuration' /\ (resp'[f] = "ok" => Covered(f, GrantDeadline(f))')
    BY DEF GrantInv
  <2>1. UNCHANGED <<now, offset, duration, pc, resp, sentAt>>
    BY DEF HandoverNext
  <2>2. ValidDuration
    BY <2>1 DEF IndInv, GrantInv
  <2>3. GrantDeadline(f) \in Int
    BY BoundsAssumption DEF IndInv, TypeOK, GrantDeadline
  <2>4. resp[f] = "ok" => Covered(f, GrantDeadline(f))
    BY <2>1 DEF IndInv, GrantInv
  <2> QED
    BY <2>1, <2>2, <2>3, <2>4, CoveredHandover DEF Covered, GrantDeadline, ValidDuration
<1> QED
  BY <1>1, <1>2, <1>3, <1>4 DEF LeasePart
(* Every action preserves LeasePart.                                       *)
LEMMA LeaseStep == IndInv /\ [Next]_vars => LeasePart'
<1> SUFFICES ASSUME IndInv, [Next]_vars PROVE LeasePart'
  OBVIOUS
<1> LeasePart
  BY DEF IndInv, LeasePart
<1>1. CASE Tick
  BY <1>1, LeaseTick
<1>2. CASE ClientStops \/ ClientStarts
  BY <1>2, LeaseFrame DEF ClientStops, ClientStarts, clockVars, podVars, renewVars
<1>3. CASE NetNext
  BY <1>3, LeaseApiPatch, LeaseLosePatch DEF NetNext
<1>4. CASE HandoverNext
  BY <1>4, LeaseHandover
<1>5. ASSUME NEW f \in Fences, RenewNext(f) PROVE LeasePart'
  <2>1. CASE RequestFails(f) \/ Refuse(f)
    <3>1. RenewalEnds(f, "stopped") \/ RenewalEnds(f, "down")
      BY <2>1 DEF RequestFails, Refuse, RenewError, ProcessEnds
    <3>2. UNCHANGED <<now, offset, lease, duration, net, starts, op>>
      BY <2>1 DEF RequestFails, Refuse, clockVars, apiVars, podVars
    <3> QED
      BY <3>1, <3>2, LeaseRenewalEnds
  <2>2. CASE PodGet(f) \/ RenewTick(f)
    BY <2>2, LeasePodGet
  <2>3. CASE LeaseGet(f)
    BY <2>3, LeaseLeaseGet
  <2>4. CASE SendPatch(f)
    BY <2>4, LeaseSendPatch
  <2>5. CASE StartServing(f) \/ Renewed(f)
    BY <2>5, LeaseRenewalEnds DEF StartServing, Renewed, clockVars, apiVars, podVars
  <2> QED
    BY <1>5, <2>1, <2>2, <2>3, <2>4, <2>5 DEF RenewNext
<1>6. ASSUME NEW f \in Fences, ConnNext(f) PROVE LeasePart'
  BY <1>6, LeaseFrame DEF ConnNext, AdmitSource, DropAccepted, Register, ProxyDeadline, ProxyDial,
     ProxyReturn, clockVars, apiVars, podVars, renewVars
<1>7. ASSUME NEW f \in Fences, TripNext(f) PROVE LeasePart'
  <2>1. CASE Exit(f)
    BY <2>1, LeaseRenewalEnds DEF Exit, ProcessEnds, clockVars, apiVars, podVars
  <2> QED
    BY <1>7, <2>1, LeaseFrame DEF TripNext, Watchdog, TripRequested, TripClose,
       clockVars, apiVars, podVars, renewVars
<1>8. ASSUME NEW f \in Fences, PodNext(f) PROVE LeasePart'
  <2>1. CASE PodRemove(f)
    BY <2>1, LeaseFrame DEF PodRemove, clockVars, apiVars, renewVars
  <2>2. CASE Start(f)
    BY <2>2, LeaseStart
  <2>3. CASE Crash(f)
    BY <2>3, LeaseRenewalEnds DEF Crash, ProcessEnds, clockVars, apiVars, podVars
  <2> QED
    BY <1>8, <2>1, <2>2, <2>3 DEF PodNext
<1>9. CASE UNCHANGED vars
  BY <1>9, LeaseFrame DEF vars, clockVars, apiVars, podVars, renewVars
<1> QED
  BY <1>1, <1>2, <1>3, <1>4, <1>5, <1>6, <1>7, <1>8, <1>9 DEF Next

-----------------------------------------------------------------------------
(* A process that ends serves nothing.                                     *)
LEMMA ServeProcessEnds ==
  ASSUME IndInv, NEW f \in Fences, ProcessEnds(f),
         UNCHANGED <<now, offset, lease, duration>>
  PROVE  ServePart'
<1> USE DEF IndInv, TypeOK, ProcessEnds, FreeConn
<1>1. ServingInv'
  BY DEF ServingInv
<1>2. AuthorityUnderLease'
  BY DEF AuthorityUnderLease, Covered, Clock
<1> QED
  BY <1>1, <1>2 DEF ServePart

(* Nothing that a proxy promises has changed.                              *)
LEMMA ServeFrame ==
  ASSUME ServePart,
         UNCHANGED <<now, offset, lease, duration, listening, deadline, accepting, conns>>
  PROVE  ServePart'
BY DEF ServePart, ServingInv, AuthorityUnderLease, Covered, Clock

(* Time, and what the API server does to the Lease, leave every deadline   *)
(* that has not passed covered.                                            *)
LEMMA ServeLeaseChange ==
  ASSUME IndInv, Tick \/ NetNext \/ HandoverNext
  PROVE  ServePart'
<1>1. UNCHANGED <<listening, deadline, accepting, conns>>
  BY DEF Tick, NetNext, ApiPatch, LosePatch, HandoverNext, HandoverCheck, HandoverSend,
     HandoverPatch, HandoverReadback, authVars, connVars
<1>2. ASSUME NEW f \in Fences, NEW d \in Int, Covered(f, d)
      PROVE  Clock(f)' < d => lease'.holder = f /\ d <= lease'.renewed + duration' - Margin
  <2>1. CASE Tick
    <3>1. Clock(f)' = Clock(f) + 1 /\ Clock(f) \in Int /\ UNCHANGED <<lease, duration>>
      BY <2>1 DEF Tick, Clock, apiVars, IndInv, TypeOK
    <3> QED
      BY <3>1, <1>2 DEF Covered
  <2>2. CASE NetNext
    <3>1. CASE \E m \in net : ApiPatch(m)
      BY <3>1, <1>2, CoveredApiPatch
    <3>2. CASE \E m \in net : LosePatch(m)
      BY <3>2, <1>2 DEF LosePatch, Covered, Clock, clockVars
    <3> QED
      BY <2>2, <3>1, <3>2 DEF NetNext
  <2>3. CASE HandoverNext
    BY <2>3, <1>2, CoveredHandover DEF Covered
  <2> QED
    BY <2>1, <2>2, <2>3
<1>3. \A f \in Fences : deadline[f] \in Int /\ \A c \in Conns : conns[f][c].deadline \in Int
  BY DEF IndInv, TypeOK
<1>4. ServingInv'
  BY <1>1 DEF IndInv, ServingInv
<1>5. AuthorityUnderLease'
  BY <1>1, <1>2, <1>3 DEF IndInv, AuthorityUnderLease, Covered
<1> QED
  BY <1>4, <1>5 DEF ServePart
(* A grant becomes the process's deadline.                                 *)
LEMMA ServeGrant ==
  ASSUME IndInv, NEW f \in Fences, StartServing(f) \/ Renewed(f)
  PROVE  ServePart'
<1>1. /\ pc[f] = "patch" /\ resp[f] = "ok"
      /\ deadline' = [deadline EXCEPT ![f] = GrantDeadline(f)]
      /\ \A g \in Fences : listening[g] => listening'[g]
      /\ \A g \in Fences : g # f => listening'[g] = listening[g]
      /\ UNCHANGED <<now, offset, lease, duration, accepting, conns>>
  BY DEF StartServing, Renewed, SetAuthorityDeadline, clockVars, apiVars, connVars, IndInv, TypeOK
<1>2. Covered(f, GrantDeadline(f))
  BY <1>1 DEF IndInv, GrantInv
<1>3. ServingInv'
  BY <1>1 DEF IndInv, ServingInv
<1>4. AuthorityUnderLease'
  BY <1>1, <1>2 DEF IndInv, TypeOK, AuthorityUnderLease, Covered, Clock
<1> QED
  BY <1>3, <1>4 DEF ServePart

(* A connection's deadline never exceeds the authority deadline it was     *)
(* computed under.                                                         *)
LEMMA ServeConn ==
  ASSUME IndInv, NEW f \in Fences, ConnNext(f)
  PROVE  ServePart'
<1>1. UNCHANGED <<now, offset, lease, duration, listening, deadline>>
  BY DEF ConnNext, AdmitSource, DropAccepted, Register, ProxyDeadline, ProxyDial, ProxyReturn,
     clockVars, apiVars, authVars
<1>2. ASSUME NEW g \in Fences, NEW d \in Int, Covered(g, d) PROVE Covered(g, d)'
  BY <1>1, <1>2 DEF Covered, Clock
<1>3. CASE UNCHANGED conns /\ (listening[f] \/ accepting' = [accepting EXCEPT ![f] = NoClient])
           /\ \A g \in Fences : g # f => accepting'[g] = accepting[g]
  BY <1>1, <1>3 DEF IndInv, TypeOK, ServePart, ServingInv, AuthorityUnderLease, Covered, Clock
<1>4. CASE \E s \in Clients : AdmitSource(f, s)
  BY <1>3, <1>4 DEF AdmitSource, IndInv, TypeOK
<1>5. CASE DropAccepted(f)
  BY <1>3, <1>5 DEF DropAccepted, IndInv, TypeOK
<1>6. ASSUME NEW c \in Conns, NEW k \in [st : {"free", "registered", "dialing", "open"},
                                        src : Clients \cup {NoClient}, deadline : Nat],
             conns' = [conns EXCEPT ![f][c] = k],
             k.st # "free" => listening[f],
             k.st \in {"dialing", "open"} => Covered(f, k.deadline),
             UNCHANGED accepting \/ accepting' = [accepting EXCEPT ![f] = NoClient]
      PROVE  ServePart'
  <2>1. \A g \in Fences, e \in Conns :
          conns'[g][e] = IF g = f /\ e = c THEN k ELSE conns[g][e]
    BY <1>6 DEF IndInv, TypeOK
  <2>2. ServingInv'
    BY <1>1, <1>6, <2>1 DEF IndInv, TypeOK, ServingInv
  <2>3. AuthorityUnderLease'
    BY <1>1, <1>6, <2>1 DEF IndInv, AuthorityUnderLease, Covered, Clock
  <2> QED
    BY <2>2, <2>3 DEF ServePart
<1>7. ASSUME NEW c \in Conns, Register(f, c) PROVE ServePart'
  <2> DEFINE k == [st |-> "registered", src |-> accepting[f], deadline |-> 0]
  <2>1. listening[f] /\ accepting[f] \in Clients \cup {NoClient}
    BY <1>7 DEF Register, IndInv, TypeOK, ServingInv
  <2>2. conns' = [conns EXCEPT ![f][c] = k] /\ accepting' = [accepting EXCEPT ![f] = NoClient]
    BY <1>7 DEF Register
  <2> QED
    BY <1>6, <2>1, <2>2
<1>8. ASSUME NEW c \in Conns, ProxyDeadline(f, c) PROVE ServePart'
  <2> DEFINE D == ConnectionDeadline(f)
  <2>1. /\ listening[f] /\ conns[f][c].src \in Clients \cup {NoClient}
        /\ UNCHANGED accepting
    BY <1>8 DEF ProxyDeadline, IndInv, TypeOK, ServingInv
  <2>2. D \in Nat /\ D <= deadline[f] /\ deadline[f] \in Int
    BY BoundsAssumption DEF IndInv, TypeOK, ConnectionDeadline, Lesser, Clock
  <2>3. Covered(f, D)
    BY <2>1, <2>2, CoveredEarlier DEF IndInv, AuthorityUnderLease
  <2>4. CASE Clock(f) < D
    <3>1. conns' = [conns EXCEPT ![f][c] = [st |-> "dialing", src |-> conns[f][c].src, deadline |-> D]]
      BY <1>8, <2>4 DEF ProxyDeadline
    <3> HIDE DEF D
    <3> QED
      BY <1>6, <2>1, <2>2, <2>3, <3>1
  <2>5. CASE ~(Clock(f) < D)
    <3>1. conns' = [conns EXCEPT ![f][c] = FreeConn]
      BY <1>8, <2>5 DEF ProxyDeadline
    <3> QED
      BY <1>6, <2>1, <3>1 DEF FreeConn
  <2> QED
    BY <2>4, <2>5
<1>9. ASSUME NEW c \in Conns, ProxyDial(f, c) PROVE ServePart'
  <2> DEFINE k == [st |-> "open", src |-> conns[f][c].src, deadline |-> conns[f][c].deadline]
  <2>1. /\ listening[f]
        /\ conns[f][c].src \in Clients \cup {NoClient} /\ conns[f][c].deadline \in Nat
        /\ Covered(f, conns[f][c].deadline)
    BY <1>9 DEF ProxyDial, IndInv, TypeOK, ServingInv, AuthorityUnderLease
  <2>2. conns' = [conns EXCEPT ![f][c] = k] /\ UNCHANGED accepting
    BY <1>9 DEF ProxyDial
  <2> QED
    BY <1>6, <2>1, <2>2
<1>10. ASSUME NEW c \in Conns, ProxyReturn(f, c) PROVE ServePart'
  BY <1>6, <1>10 DEF ProxyReturn, FreeConn
<1> QED
  BY <1>4, <1>5, <1>7, <1>8, <1>9, <1>10 DEF ConnNext

(* Every action preserves ServePart.                                       *)
LEMMA ServeStep == IndInv /\ [Next]_vars => ServePart'
<1> SUFFICES ASSUME IndInv, [Next]_vars PROVE ServePart'
  OBVIOUS
<1> ServePart
  BY DEF IndInv, ServePart
<1>1. CASE Tick \/ NetNext \/ HandoverNext
  BY <1>1, ServeLeaseChange
<1>2. CASE ClientStops \/ ClientStarts
  BY <1>2, ServeFrame DEF ClientStops, ClientStarts, clockVars, authVars, connVars
<1>3. ASSUME NEW f \in Fences, RenewNext(f) PROVE ServePart'
  <2>1. CASE RequestFails(f) \/ Refuse(f)
    <3>1. UNCHANGED <<now, offset, lease, duration>>
      BY <2>1 DEF RequestFails, Refuse, clockVars, apiVars
    <3>2. ProcessEnds(f) \/ UNCHANGED <<listening, deadline, accepting, conns>>
      BY <2>1 DEF RequestFails, Refuse, RenewError, connVars
    <3> QED
      BY <3>1, <3>2, ServeProcessEnds, ServeFrame
  <2>2. CASE PodGet(f) \/ RenewTick(f) \/ LeaseGet(f) \/ SendPatch(f)
    BY <2>2, ServeFrame DEF PodGet, RenewTick, LeaseGet, SendPatch, clockVars, apiVars, authVars, connVars
  <2>3. CASE StartServing(f) \/ Renewed(f)
    BY <2>3, ServeGrant
  <2> QED
    BY <1>3, <2>1, <2>2, <2>3 DEF RenewNext
<1>4. ASSUME NEW f \in Fences, ConnNext(f) PROVE ServePart'
  BY <1>4, ServeConn
<1>5. ASSUME NEW f \in Fences, TripNext(f) PROVE ServePart'
  <2>1. CASE Exit(f)
    BY <2>1, ServeProcessEnds DEF Exit, clockVars, apiVars
  <2>2. CASE TripClose(f)
    <3>1. /\ UNCHANGED <<now, offset, lease, duration, listening, deadline, accepting>>
          /\ conns' = [conns EXCEPT ![f] = [c \in Conns |-> FreeConn]]
      BY <2>2 DEF TripClose, clockVars, apiVars
    <3> QED
      BY <3>1 DEF IndInv, TypeOK, ServePart, ServingInv, AuthorityUnderLease, Covered, Clock, FreeConn
  <2>3. CASE Watchdog(f) \/ TripRequested(f)
    BY <2>3, ServeFrame DEF Watchdog, TripRequested, clockVars, apiVars, connVars
  <2> QED
    BY <1>5, <2>1, <2>2, <2>3 DEF TripNext
<1>6. ASSUME NEW f \in Fences, PodNext(f) PROVE ServePart'
  <2>1. CASE PodRemove(f) \/ Start(f)
    BY <2>1, ServeFrame DEF PodRemove, Start, clockVars, apiVars, authVars, connVars
  <2>2. CASE Crash(f)
    BY <2>2, ServeProcessEnds DEF Crash, clockVars, apiVars
  <2> QED
    BY <1>6, <2>1, <2>2 DEF PodNext
<1>7. CASE UNCHANGED vars
  BY <1>7, ServeFrame DEF vars, clockVars, apiVars, authVars, connVars
<1> QED
  BY <1>1, <1>2, <1>3, <1>4, <1>5, <1>6, <1>7 DEF Next
-----------------------------------------------------------------------------
(* The inductive invariant holds in every reachable state.                 *)
THEOREM Invariance == Spec => []IndInv
<1>1. Init => IndInv
  BY InitIndInv
<1>2. IndInv /\ [Next]_vars => IndInv'
  BY TypeStep, LeaseStep, ServeStep DEF IndInv, LeasePart, ServePart
<1> QED
  BY <1>1, <1>2, PTL DEF Spec

(* Every variable keeps its type: main.go's state, the Lease, the Pods and *)
(* the handover script's progress.                                         *)
THEOREM TypeCorrect == Spec => []TypeOK
<1>1. IndInv => TypeOK
  BY DEF IndInv
<1> QED
  BY <1>1, Invariance, PTL

(* A serving fence and a tunnel that carries traffic always act under the  *)
(* current Lease and end at least the safety margin before it expires.     *)
THEOREM ServesUnderLease == Spec => []AuthorityUnderLease
<1>1. IndInv => AuthorityUnderLease
  BY DEF IndInv
<1> QED
  BY <1>1, Invariance, PTL

(* A fence that forwards is the Lease's holder.                            *)
LEMMA ForwarderHoldsLease ==
  ASSUME IndInv, NEW f \in Fences, CanForward(f)
  PROVE  lease.holder = f
BY DEF CanForward, Carries, IndInv, AuthorityUnderLease, Covered

(* Two fences never forward at the same moment, for any number of fences   *)
(* and connections and any clocks that differ by at most the safety        *)
(* margin (the promise of main.go:1-3).                                    *)
THEOREM Exclusion == Spec => []ExclusiveForwarding
<1>1. IndInv => ExclusiveForwarding
  BY ForwarderHoldsLease DEF ExclusiveForwarding
<1> QED
  BY <1>1, Invariance, PTL

(* The handover script clears the holder only while every fence is silent, *)
(* whatever the API still lists.                                           *)
THEOREM SilentHandover == Spec => HandoverOnlyWhenSilent
<1>1. ASSUME IndInv, [Next]_vars, lease.holder # None, lease'.holder = None,
             NEW f \in Fences, CanForward(f)
      PROVE  FALSE
  <2>1. CASE HandoverNext
    <3>1. PICK c \in Conns : conns[f][c].st = "open" /\ Clock(f) < conns[f][c].deadline
      BY <1>1 DEF CanForward, Carries
    <3>2. Covered(f, conns[f][c].deadline) /\ conns[f][c].deadline \in Int
      BY <1>1, <3>1 DEF IndInv, TypeOK, AuthorityUnderLease
    <3>3. lease' = lease
      BY <1>1, <2>1, <3>1, <3>2, CoveredHandover
    <3> QED
      BY <1>1, <3>3
  <2>2. CASE NetNext
    BY <1>1, <2>2, MessageFacts, IdentityAssumption DEF NetNext, ApiPatch, LosePatch
  <2>3. CASE UNCHANGED lease
    BY <1>1, <2>3
  <2>4. HandoverNext \/ NetNext \/ UNCHANGED lease
    BY <1>1 DEF Next, vars, Tick, ClientStops, ClientStarts, RenewNext, ConnNext, TripNext, PodNext,
       RequestFails, PodGet, LeaseGet, Refuse, SendPatch, StartServing, Renewed, RenewTick,
       AdmitSource, DropAccepted, Register, ProxyDeadline, ProxyDial, ProxyReturn,
       Watchdog, TripRequested, TripClose, Exit, PodRemove, Start, Crash, apiVars
  <2> QED
    BY <2>1, <2>2, <2>3, <2>4
<1>2. IndInv /\ [Next]_vars
        => [lease.holder # None /\ lease'.holder = None => \A f \in Fences : ~CanForward(f)]_vars
  BY <1>1
<1> QED
  BY <1>2, Invariance, PTL DEF Spec, HandoverOnlyWhenSilent

-----------------------------------------------------------------------------
(* Once trip has closed p.done there are no connections, and none can be   *)
(* registered any more.                                                    *)
Admitted(f) == done[f] => fenced[f] /\ \A c \in Conns : conns[f][c].st = "free"
AdmissionInv == \A f \in Fences : Admitted(f)

(* The other processes keep what they have admitted.                       *)
LEMMA AdmissionOf ==
  ASSUME AdmissionInv, NEW f \in Fences, Admitted(f)',
         \A g \in Fences \ {f} :
           /\ conns'[g] = conns[g] /\ done'[g] = done[g] /\ fenced'[g] = fenced[g]
  PROVE  AdmissionInv'
BY DEF AdmissionInv, Admitted

LEMMA AdmissionFrame ==
  ASSUME AdmissionInv, UNCHANGED <<conns, done>>,
         \A f \in Fences : fenced[f] => fenced'[f]
  PROVE  AdmissionInv'
BY DEF AdmissionInv, Admitted

LEMMA AdmissionEnds ==
  ASSUME TypeOK, AdmissionInv, NEW f \in Fences, ProcessEnds(f)
  PROVE  AdmissionInv'
<1>1. Admitted(f)'
  BY DEF TypeOK, ProcessEnds, Admitted, FreeConn, NoClient
<1> QED
  BY <1>1, AdmissionOf DEF TypeOK, ProcessEnds

(* One connection slot takes a new value.                                  *)
LEMMA AdmissionConn ==
  ASSUME TypeOK, AdmissionInv, NEW f \in Fences, NEW c \in Conns, NEW k,
         conns' = [conns EXCEPT ![f][c] = k],
         k.st # "free" => ~done[f], UNCHANGED <<done, fenced>>
  PROVE  AdmissionInv'
<1>1. \A e \in Conns : conns'[f][e] = IF e = c THEN k ELSE conns[f][e]
  BY DEF TypeOK
<1>2. Admitted(f)'
  BY <1>1 DEF AdmissionInv, Admitted
<1>3. \A g \in Fences \ {f} : conns'[g] = conns[g]
  BY DEF TypeOK
<1> QED
  BY <1>2, <1>3, AdmissionOf

LEMMA AdmissionStep == IndInv /\ AdmissionInv /\ [Next]_vars => AdmissionInv'
<1> SUFFICES ASSUME IndInv, AdmissionInv, [Next]_vars PROVE AdmissionInv'
  OBVIOUS
<1>0. TypeOK
  BY DEF IndInv
<1>1. CASE UNCHANGED <<conns, done, fenced>>
  BY <1>1, AdmissionFrame
<1>2. ASSUME NEW f \in Fences, RequestFails(f) \/ Refuse(f) PROVE AdmissionInv'
  <2>1. CASE listening[f]
    <3>1. /\ UNCHANGED <<conns, done>>
          /\ fenced' = [fenced EXCEPT ![f] = TRUE]
      BY <1>2, <2>1 DEF RequestFails, Refuse, RenewError, connVars
    <3>2. \A g \in Fences : fenced[g] => fenced'[g]
      BY <1>0, <3>1 DEF TypeOK
    <3> QED
      BY <3>1, <3>2, AdmissionFrame
  <2>2. CASE ~listening[f]
    BY <1>0, <1>2, <2>2, AdmissionEnds DEF RequestFails, Refuse, RenewError
  <2> QED
    BY <2>1, <2>2
<1>3. ASSUME NEW f \in Fences, Exit(f) \/ Crash(f) PROVE AdmissionInv'
  BY <1>0, <1>3, AdmissionEnds DEF Exit, Crash
<1>4. ASSUME NEW f \in Fences, Watchdog(f) \/ TripRequested(f) PROVE AdmissionInv'
  <2>1. /\ UNCHANGED <<conns, done>>
        /\ fenced' = [fenced EXCEPT ![f] = TRUE]
    BY <1>4 DEF Watchdog, TripRequested, connVars
  <2>2. \A g \in Fences : fenced[g] => fenced'[g]
    BY <1>0, <2>1 DEF TypeOK
  <2> QED
    BY <2>1, <2>2, AdmissionFrame
<1>5. ASSUME NEW f \in Fences, TripClose(f) PROVE AdmissionInv'
  <2>1. /\ fenced[f] /\ UNCHANGED fenced
        /\ conns' = [conns EXCEPT ![f] = [c \in Conns |-> FreeConn]]
        /\ done' = [done EXCEPT ![f] = TRUE]
    BY <1>5 DEF TripClose
  <2>2. Admitted(f)'
    BY <1>0, <2>1 DEF TypeOK, AdmissionInv, Admitted, FreeConn
  <2> QED
    BY <1>0, <2>1, <2>2, AdmissionOf DEF TypeOK
<1>6. ASSUME NEW f \in Fences, ConnNext(f) PROVE AdmissionInv'
  <2>1. CASE (\E s \in Clients : AdmitSource(f, s)) \/ DropAccepted(f)
    BY <1>1, <2>1 DEF AdmitSource, DropAccepted, authVars
  <2>2. ASSUME NEW c \in Conns, Register(f, c) PROVE AdmissionInv'
    <3>1. PICK k : conns' = [conns EXCEPT ![f][c] = k]
      BY <2>2 DEF Register
    <3>2. ~fenced[f] /\ UNCHANGED <<done, fenced>>
      BY <2>2 DEF Register, authVars
    <3>3. ~done[f]
      BY <3>2 DEF AdmissionInv, Admitted
    <3> QED
      BY <1>0, <3>1, <3>2, <3>3, AdmissionConn
  <2>3. ASSUME NEW c \in Conns, ProxyDeadline(f, c) \/ ProxyDial(f, c) \/ ProxyReturn(f, c)
        PROVE  AdmissionInv'
    <3>1. PICK k : conns' = [conns EXCEPT ![f][c] = k]
      <4>1. CASE ProxyDial(f, c)
        BY <4>1 DEF ProxyDial
      <4>2. CASE ProxyReturn(f, c)
        BY <4>2 DEF ProxyReturn
      <4>3. CASE ProxyDeadline(f, c)
        <5> DEFINE k == [st |-> "dialing", src |-> conns[f][c].src, deadline |-> ConnectionDeadline(f)]
        <5>1. conns' = [conns EXCEPT ![f][c] = k] \/ conns' = [conns EXCEPT ![f][c] = FreeConn]
          BY <4>3 DEF ProxyDeadline
        <5> HIDE DEF k
        <5> QED
          BY <5>1
      <4> QED
        BY <2>3, <4>1, <4>2, <4>3
    <3>2. conns[f][c].st # "free" /\ UNCHANGED <<done, fenced>>
      BY <2>3 DEF ProxyDeadline, ProxyDial, ProxyReturn, authVars
    <3>3. ~done[f]
      BY <3>2 DEF AdmissionInv, Admitted
    <3> QED
      BY <1>0, <3>1, <3>2, <3>3, AdmissionConn
  <2> QED
    BY <1>6, <2>1, <2>2, <2>3 DEF ConnNext
<1>7. ASSUME NEW f \in Fences,
             \/ PodGet(f) \/ LeaseGet(f) \/ SendPatch(f) \/ StartServing(f) \/ Renewed(f)
             \/ RenewTick(f) \/ PodRemove(f) \/ Start(f)
      PROVE  UNCHANGED <<conns, done, fenced>>
  BY <1>7 DEF PodGet, LeaseGet, SendPatch, StartServing, Renewed, RenewTick, PodRemove, Start,
     authVars, connVars
<1>8. CASE Tick \/ ClientStops \/ ClientStarts \/ NetNext \/ HandoverNext \/ UNCHANGED vars
  <2>1. UNCHANGED <<conns, done, fenced>>
    BY <1>8 DEF Tick, ClientStops, ClientStarts, NetNext, ApiPatch, LosePatch, HandoverNext,
       HandoverCheck, HandoverSend, HandoverPatch, HandoverReadback, authVars, connVars, vars
  <2> QED
    BY <1>1, <2>1
<1> QED
  BY <1>1, <1>2, <1>3, <1>4, <1>5, <1>6, <1>7, <1>8 DEF Next, RenewNext, TripNext, PodNext

(* AdmissionInv holds in every reachable state.                            *)
LEMMA AdmissionHolds == Spec => []AdmissionInv
<1>1. Init => AdmissionInv
  BY DEF Init, AdmissionInv, Admitted, FreeConn
<1> QED
  BY <1>1, AdmissionStep, Invariance, PTL DEF Spec

(* Once trip has closed p.done, no connection is open or comes back: the   *)
(* accept loop looks at `fenced' again before it registers one.            *)
THEOREM DoneIsClosed == Spec => []ClosedWhenDone
<1>1. AdmissionInv => ClosedWhenDone
  BY DEF AdmissionInv, Admitted, ClosedWhenDone
<1> QED
  BY <1>1, AdmissionHolds, PTL

-----------------------------------------------------------------------------
(* A fence that starts to forward does so by a dial, which changes nothing *)
(* for the other fences.                                                   *)
LEMMA OnlyDialActivates ==
  ASSUME IndInv, [Next]_vars, NEW f \in Fences, ~CanForward(f), CanForward(f)'
  PROVE  \A g \in Fences : g # f /\ CanForward(g) => CanForward(g)'
<1>1. PICK c \in Conns : conns'[f][c].st = "open" /\ Clock(f)' < conns'[f][c].deadline
  BY DEF CanForward, Carries
<1>2. ~(conns[f][c].st = "open" /\ Clock(f) < conns[f][c].deadline)
  BY DEF CanForward, Carries
<1> SUFFICES \E e \in Conns : ProxyDial(f, e)
  BY DEF ProxyDial, CanForward, Carries, Clock, clockVars, IndInv, TypeOK
<1> USE DEF IndInv, TypeOK, Clock
<1>3. CASE UNCHANGED conns
  <2>1. offset' = offset /\ now' \in {now, now + 1}
    BY BoundsAssumption, <1>3 DEF Next, vars, Tick, ClientStops, ClientStarts, NetNext, ApiPatch, LosePatch,
       HandoverNext, HandoverCheck, HandoverSend, HandoverPatch, HandoverReadback,
       RenewNext, ConnNext, TripNext, PodNext, RequestFails, PodGet, LeaseGet, Refuse, SendPatch,
       StartServing, Renewed, RenewTick, AdmitSource, DropAccepted, Register, ProxyDeadline,
       ProxyDial, ProxyReturn, Watchdog, TripRequested, TripClose, Exit, PodRemove, Start, Crash,
       clockVars
  <2>2. conns[f][c].deadline \in Int /\ now \in Int /\ offset[f] \in Int
    OBVIOUS
  <2> QED
    BY <1>1, <1>2, <1>3, <2>1, <2>2
<1>4. CASE \E g \in Fences : ConnNext(g)
  <2> PICK g \in Fences : ConnNext(g)
    BY <1>4
  <2>1. CASE \E e \in Conns : ProxyDial(g, e)
    <3>1. PICK e \in Conns : ProxyDial(g, e)
      BY <2>1
    <3>2. CASE g = f
      BY <3>1, <3>2
    <3>3. CASE g # f
      BY <1>1, <1>2, <3>1, <3>3 DEF ProxyDial, clockVars
    <3> QED
      BY <3>2, <3>3
  <2>2. CASE \E e \in Conns : Register(g, e) \/ ProxyDeadline(g, e) \/ ProxyReturn(g, e)
    <3>1. UNCHANGED <<now, offset>>
      BY <2>2 DEF Register, ProxyDeadline, ProxyReturn, clockVars
    <3>2. PICK e \in Conns : Register(g, e) \/ ProxyDeadline(g, e) \/ ProxyReturn(g, e)
      BY <2>2
    <3>3. \A h \in Fences, d \in Conns : ~(h = g /\ d = e) => conns'[h][d] = conns[h][d]
      BY <3>2 DEF Register, ProxyDeadline, ProxyReturn
    <3>4. conns'[g][e].st # "open"
      <4>1. CASE Register(g, e) \/ ProxyReturn(g, e)
        BY <4>1 DEF Register, ProxyReturn, FreeConn
      <4>2. CASE ProxyDeadline(g, e)
        BY <4>2 DEF ProxyDeadline, FreeConn
      <4> QED
        BY <3>2, <4>1, <4>2
    <3> QED
      BY <1>1, <1>2, <3>1, <3>3, <3>4
  <2>3. CASE DropAccepted(g) \/ \E s \in Clients : AdmitSource(g, s)
    BY <1>3, <2>3 DEF DropAccepted, AdmitSource
  <2> QED
    BY <2>1, <2>2, <2>3 DEF ConnNext
<1>5. CASE \E g \in Fences : conns' = [conns EXCEPT ![g] = [e \in Conns |-> FreeConn]] /\ UNCHANGED <<now, offset>>
  BY <1>1, <1>2, <1>5 DEF FreeConn
<1>6. UNCHANGED conns \/ (\E g \in Fences : ConnNext(g))
      \/ \E g \in Fences : conns' = [conns EXCEPT ![g] = [e \in Conns |-> FreeConn]] /\ UNCHANGED <<now, offset>>
  BY DEF Next, vars, Tick, ClientStops, ClientStarts, NetNext, ApiPatch, LosePatch,
     HandoverNext, HandoverCheck, HandoverSend, HandoverPatch, HandoverReadback,
     RenewNext, TripNext, PodNext, RequestFails, PodGet, LeaseGet, Refuse, SendPatch, RenewError,
     StartServing, Renewed, RenewTick, Watchdog, TripRequested, TripClose, Exit, PodRemove, Start, Crash,
     ProcessEnds, clockVars, connVars
<1> QED
  BY <1>3, <1>4, <1>5, <1>6

(* The fences implement the abstract exclusive signer: the set of fences   *)
(* that forward only shrinks, except when it is empty and one starts.      *)
THEOREM Refinement == Spec => ImplementsExclusiveSigner
<1>1. Init => Abstract!Init
  BY DEF Init, Abstract!Init, CanForward, Carries, FreeConn
<1>2. IndInv /\ IndInv' /\ [Next]_vars => [Abstract!Next]_{f \in Fences : CanForward(f)}
  <2> SUFFICES ASSUME IndInv, IndInv', [Next]_vars PROVE Abstract!Next
    OBVIOUS
  <2> DEFINE A == {f \in Fences : CanForward(f)}
  <2>1. CASE A' \subseteq A
    BY <2>1 DEF Abstract!Next, Abstract!Silence
  <2>2. CASE ~(A' \subseteq A)
    <3>1. PICK f \in Fences : CanForward(f)' /\ ~CanForward(f)
      BY <2>2
    <3>2. \A g \in Fences : CanForward(g)' => g = f
      BY <3>1, ForwarderHoldsLease DEF CanForward, Carries, IndInv, AuthorityUnderLease, Covered
    <3>3. \A g \in Fences : ~CanForward(g)
      BY <3>1, <3>2, OnlyDialActivates
    <3>4. A = {} /\ A' = {f}
      BY <3>1, <3>2, <3>3
    <3> QED
      BY <3>4 DEF Abstract!Next, Abstract!Activate
  <2> QED
    BY <2>1, <2>2
<1> QED
  BY <1>1, <1>2, Invariance, PTL DEF Spec, ImplementsExclusiveSigner, Abstract!Spec
=============================================================================
