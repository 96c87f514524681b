---------------------------- MODULE SigningFence ----------------------------
(***************************************************************************)
(* The signing fence (cmd/validator-signing-fence/main.go): a TCP proxy in *)
(* front of Web3Signer that forwards only while its Pod holds a Kubernetes *)
(* Lease, together with the Lease object, the client Pod it is pinned to,  *)
(* and the operator script that hands an expired Lease over.               *)
(*                                                                         *)
(* A fence process has three concurrent threads of control: the renewal    *)
(* thread (start, then renewLoop), the accept loop with one goroutine per  *)
(* connection, and the watchdog goroutines of setAuthorityDeadline.  Each  *)
(* has its own actions below; `pc' is the renewal thread's.                *)
(*                                                                         *)
(* Clocks.  `now' is real time.  Fence f reads Clock(f) = now + offset[f]; *)
(* the offsets differ by at most Skew and do not change (no clock steps).  *)
(* Requests and goroutines may be delayed without bound, so nothing below  *)
(* relies on a timeout or a timer being prompt.                            *)
(***************************************************************************)
EXTENDS Integers, FiniteSets

CONSTANTS
  Fences,          \* fence Pods; the Pod UID is the Lease holder identity
  Conns,           \* connection slots of one fence process
  Operator,        \* the operator running the handover script
  None,            \* the empty string / no Pod
  Poll,            \* -poll-interval
  Timeout,         \* -request-timeout
  Margin,          \* -safety-margin
  MaxAge,          \* -max-connection-age
  HandoverMargin,  \* the 5 s the handover script adds to the expiry
  Durations,       \* possible leaseDurationSeconds of the deployed Lease
  Skew,            \* bound on the difference of two clocks
  MaxTime,         \* bound on `now'
  MaxStarts,       \* bound on the container starts of one Pod
  MaxVersion,      \* bound on the Lease's resourceVersion at a renewal tick
  MaxClients,      \* bound on the client Pods that exist one after another
  Address,         \* a client Pod's IP, named by the first Pod that had it
  Removable        \* bound on Pod deletions: the fences whose Pod may go

(* main refuses non-positive bounds; the skew bound is what -safety-margin *)
(* has to cover.                                                           *)
ASSUME BoundsAssumption ==
  /\ Poll \in Nat \ {0} /\ Timeout \in Nat /\ Margin \in Nat \ {0}
  /\ MaxAge \in Nat \ {0} /\ HandoverMargin \in Nat
  /\ Durations \subseteq Nat
  /\ Skew \in Nat /\ MaxTime \in Nat /\ MaxStarts \in Nat 
  /\ MaxVersion \in Nat /\ MaxClients \in Nat \ {0}
ASSUME SkewAssumption == Skew <= Margin
ASSUME IdentityAssumption ==
  /\ None \notin Fences
  /\ Operator \notin Fences

(* The client Pods, in the order of their creation: a UID never returns,   *)
(* an IP may.                                                              *)
Clients == 1..MaxClients
NoClient == 0
ASSUME AddressAssumption == Address \in [Clients -> Clients]

VARIABLES
  now, offset,                                   \* clocks
  lease, duration, clientPod, net,               \* API server and network
  pod, starts,                                   \* Pod objects, incarnations
  pc, seen, sentAt, resp,                        \* renewal threads
  listening, deadline, armed, age, fenced, done,  \* proxy authority
  pinned, downstream, accepting, conns,          \* admission, connections
  op                                             \* handover script

clockVars == <<now, offset>>
apiVars   == <<lease, duration, clientPod, net>>
podVars   == <<pod, starts>>
renewVars == <<pc, seen, sentAt, resp>>
authVars  == <<listening, deadline, armed, age, fenced, done>>
connVars  == <<downstream, accepting, conns>>
vars == <<clockVars, apiVars, podVars, renewVars, authVars, pinned, connVars, op>>

-----------------------------------------------------------------------------
Clock(p) == now + offset[p]

Lesser(a, b) == IF a <= b THEN a ELSE b

NoLease == [rv |-> 0, holder |-> None, renewed |-> 0]
HandoverEnds(how) == [pc |-> how, seen |-> NoLease]
FreeConn == [st |-> "free", src |-> NoClient, deadline |-> 0]

GrantDeadline_NoMargin(f) == sentAt[f] + duration
GrantDeadline_AtResponse(f) == Clock(f) + duration - Margin
(* The deadline a grant carries: the clock read before the PATCH, plus the *)
(* Lease duration, less the safety margin.                                 *)
GrantDeadline(f) == sentAt[f] + duration - Margin

(* validDuration: room for three requests, one poll and the margin.        *)
ValidDuration == duration > Poll + 3 * Timeout + Margin

(* The Lease read by the GET has outlived its holder, on f's clock.        *)
Expired(f) == /\ seen[f].holder # None
              /\ Clock(f) >= seen[f].renewed + duration

(* acquireOrRenew gives up before the PATCH: future-dated renewTime, own   *)
(* Lease expired, or another live holder.                                  *)
FutureDated(f) == /\ seen[f].holder # None
                  /\ seen[f].renewed > Clock(f) + Margin
HeldByOther(f) == seen[f].holder \notin {None, f} /\ ~Expired(f)
Refused(f) == \/ ~ValidDuration
              \/ FutureDated(f)
              \/ seen[f].holder = f /\ Expired(f)
              \/ HeldByOther(f)

-----------------------------------------------------------------------------
Init ==
  /\ now = 0
  /\ offset \in [Fences \cup {Operator} -> 0..Skew]
  /\ lease = NoLease
  /\ duration \in Durations
  /\ clientPod = [uid |-> 1, up |-> TRUE]
  /\ net = {}
  /\ pod = [f \in Fences |-> "new"]
  /\ starts = [f \in Fences |-> 0]
  /\ pc = [f \in Fences |-> "down"]
  /\ seen = [f \in Fences |-> NoLease]
  /\ sentAt = [f \in Fences |-> 0]
  /\ resp = [f \in Fences |-> "none"]
  /\ listening = [f \in Fences |-> FALSE]
  /\ deadline = [f \in Fences |-> 0]
  /\ armed = [f \in Fences |-> FALSE]
  /\ age = [f \in Fences |-> 0]
  /\ fenced = [f \in Fences |-> FALSE]
  /\ done = [f \in Fences |-> FALSE]
  /\ pinned = [f \in Fences |-> NoClient]
  /\ downstream = [f \in Fences |-> NoClient]
  /\ accepting = [f \in Fences |-> NoClient]
  /\ conns = [f \in Fences |-> [c \in Conns |-> FreeConn]]
  /\ op = HandoverEnds("idle")

-----------------------------------------------------------------------------
(* Time, Pods and processes.                                               *)

Tick ==
  /\ now < MaxTime
  /\ now' = now + 1
  /\ UNCHANGED <<offset, apiVars, podVars, renewVars, authVars, pinned, connVars, op>>

(* The Pod object disappears (scale-down, eviction, forced deletion).  Its *)
(* process need not have stopped: the node may be cut off.                 *)
PodRemove(f) ==
  /\ pod[f] = "present" /\ f \in Removable
  /\ pod' = [pod EXCEPT ![f] = "gone"]
  /\ UNCHANGED <<clockVars, apiVars, starts, renewVars, authVars, pinned, connVars, op>>

(* The client Pod stops being a Running Pod, or a new one replaces it.     *)
ClientStops ==
  /\ clientPod.up
  /\ clientPod' = [clientPod EXCEPT !.up = FALSE]
  /\ UNCHANGED <<clockVars, lease, duration, net, podVars, renewVars, authVars, pinned, connVars, op>>
ClientStarts ==
  /\ ~clientPod.up
  /\ clientPod.uid < MaxClients
  /\ clientPod' = [uid |-> clientPod.uid + 1, up |-> TRUE]
  /\ UNCHANGED <<clockVars, lease, duration, net, podVars, renewVars, authVars, pinned, connVars, op>>

(* The kubelet starts the container, or starts it again after an exit: a   *)
(* new process with the same Pod UID.                                      *)
Start(f) ==
  /\ pc[f] = "down"
  /\ starts[f] < MaxStarts
  /\ starts' = [starts EXCEPT ![f] = @ + 1]
  /\ pod' = [pod EXCEPT ![f] = IF @ = "new" THEN "present" ELSE @]
  /\ pc' = [pc EXCEPT ![f] = "podget"]
  /\ UNCHANGED <<clockVars, apiVars, seen, sentAt, resp, authVars, pinned, connVars, op>>

(* acquireOrRenew has returned: its locals are gone.                       *)
RenewalEnds(f, where) ==
  /\ pc' = [pc EXCEPT ![f] = where]
  /\ seen' = [seen EXCEPT ![f] = NoLease]
  /\ sentAt' = [sentAt EXCEPT ![f] = 0]
  /\ resp' = [resp EXCEPT ![f] = "none"]

(* All of a process's memory is gone.                                      *)
ProcessEnds(f) ==
  /\ RenewalEnds(f, "down")
  /\ listening' = [listening EXCEPT ![f] = FALSE]
  /\ deadline' = [deadline EXCEPT ![f] = 0]
  /\ armed' = [armed EXCEPT ![f] = FALSE]
  /\ age' = [age EXCEPT ![f] = 0]
  /\ fenced' = [fenced EXCEPT ![f] = FALSE]
  /\ done' = [done EXCEPT ![f] = FALSE]
  /\ pinned' = [pinned EXCEPT ![f] = NoClient]
  /\ downstream' = [downstream EXCEPT ![f] = NoClient]
  /\ accepting' = [accepting EXCEPT ![f] = NoClient]
  /\ conns' = [conns EXCEPT ![f] = [c \in Conns |-> FreeConn]]

(* SIGKILL, OOM or node loss, at any point.                                *)
Crash(f) ==
  /\ pc[f] # "down"
  /\ ProcessEnds(f)
  /\ UNCHANGED <<clockVars, apiVars, podVars, op>>

(* main: <-proxy.done, os.Exit(1); or the return after proxy.close().      *)
Exit(f) ==
  /\ done[f]
  /\ ProcessEnds(f)
  /\ UNCHANGED <<clockVars, apiVars, podVars, op>>

-----------------------------------------------------------------------------
(* The renewal thread.                                                     *)

(* renewAuthority failed: start is fatal to the process, renewLoop trips   *)
(* the fence and returns.                                                  *)
RenewError(f) ==
  IF listening[f]
  THEN /\ RenewalEnds(f, "stopped")
       /\ fenced' = [fenced EXCEPT ![f] = TRUE]
       /\ UNCHANGED <<listening, deadline, armed, age,
                      done, pinned, connVars>>
  ELSE ProcessEnds(f)

(* A request failed, timed out, was cancelled or was answered badly; also  *)
(* the client Pod that is missing or is not the pinned one.                *)
RequestFails(f) ==
  /\ pc[f] \in {"podget", "leaseget", "patch"}
  /\ RenewError(f)
  /\ UNCHANGED <<clockVars, apiVars, podVars, op>>

PodGet_AddressOnly(f) ==
  /\ pc[f] = "podget"
  /\ clientPod.up
  /\ pinned[f] # NoClient => Address[clientPod.uid] = Address[pinned[f]]
  /\ pinned' = [pinned EXCEPT ![f] = clientPod.uid]
  /\ pc' = [pc EXCEPT ![f] = "leaseget"]
  /\ UNCHANGED <<clockVars, apiVars, podVars, seen, sentAt, resp, authVars, connVars, op>>
(* renewAuthority: the client Pod's UID and IP are pinned by the first     *)
(* answer and compared with every later one.  A Pod keeps its IP, so that  *)
(* an equal UID means an equal IP.                                         *)
PodGet(f) ==
  /\ pc[f] = "podget"
  /\ clientPod.up
  /\ pinned[f] \in {NoClient, clientPod.uid}
  /\ pinned' = [pinned EXCEPT ![f] = clientPod.uid]
  /\ pc' = [pc EXCEPT ![f] = "leaseget"]
  /\ UNCHANGED <<clockVars, apiVars, podVars, seen, sentAt, resp, authVars, connVars, op>>

(* acquireOrRenew: the API server answers the GET; the answer is acted on  *)
(* later, by Refuse or SendPatch.                                          *)
LeaseGet(f) ==
  /\ pc[f] = "leaseget"
  /\ seen' = [seen EXCEPT ![f] = lease]
  /\ pc' = [pc EXCEPT ![f] = "decide"]
  /\ UNCHANGED <<clockVars, apiVars, podVars, sentAt, resp, authVars, pinned, connVars, op>>

Refuse(f) ==
  /\ pc[f] = "decide"
  /\ Refused(f)
  /\ RenewError(f)
  /\ UNCHANGED <<clockVars, apiVars, podVars, op>>

(* The clock is read once, before the PATCH; the PATCH tests the resource  *)
(* version and the holder that were read.                                  *)
SendPatch(f) ==
  /\ pc[f] = "decide"
  /\ ~Refused(f)
  /\ sentAt' = [sentAt EXCEPT ![f] = Clock(f)]
  /\ net' = net \cup {[from |-> f, inc |-> starts[f], rv |-> seen[f].rv,
                       holder |-> seen[f].holder, at |-> Clock(f)]}
  /\ pc' = [pc EXCEPT ![f] = "patch"]
  /\ resp' = [resp EXCEPT ![f] = "none"]
  /\ UNCHANGED <<clockVars, lease, duration, clientPod, podVars, seen, authVars, pinned, connVars, op>>

(* The API server applies or rejects a PATCH, perhaps long after its       *)
(* sender gave up or died; only a sender still waiting gets the answer.    *)
PatchMatches_Untested(m) == TRUE
PatchMatches(m) == lease.rv = m.rv /\ lease.holder = m.holder
ApiPatch(m) ==
  /\ lease' = IF PatchMatches(m)
              THEN [rv |-> lease.rv + 1, holder |-> m.from, renewed |-> m.at]
              ELSE lease
  /\ resp' = IF starts[m.from] = m.inc /\ pc[m.from] = "patch"
             THEN [resp EXCEPT ![m.from] = IF PatchMatches(m) THEN "ok" ELSE "conflict"]
             ELSE resp
  /\ net' = net \ {m}
  /\ UNCHANGED <<clockVars, duration, clientPod, podVars, pc, seen, sentAt, authVars, pinned, connVars, op>>

LosePatch(m) ==
  /\ net' = net \ {m}
  /\ UNCHANGED <<clockVars, lease, duration, clientPod, podVars, renewVars, authVars, pinned, connVars, op>>

SetAuthorityDeadline_FirstOnly(f, d) ==
  /\ deadline' = [deadline EXCEPT ![f] = d]
  /\ armed' = [armed EXCEPT ![f] = ~listening[f]]
(* setAuthorityDeadline: a watchdog goroutine for the new deadline.  One   *)
(* started for an earlier version finds the version changed and returns,   *)
(* so only the latest is kept.                                             *)
SetAuthorityDeadline(f, d) ==
  /\ deadline' = [deadline EXCEPT ![f] = d]
  /\ armed' = [armed EXCEPT ![f] = TRUE]

MayServe(f) == Clock(f) < GrantDeadline(f)

(* start, after renewAuthority: the remaining authority must be positive   *)
(* and caps the connection age; then listen, serve and renew.              *)
StartServing(f) ==
  /\ pc[f] = "patch" /\ resp[f] = "ok" /\ ~listening[f]
  /\ MayServe(f)
  /\ age' = [age EXCEPT ![f] = Lesser(MaxAge, GrantDeadline(f) - Clock(f))]
  /\ listening' = [listening EXCEPT ![f] = TRUE]
  /\ SetAuthorityDeadline(f, GrantDeadline(f))
  /\ RenewalEnds(f, "wait")
  /\ UNCHANGED <<clockVars, apiVars, podVars, fenced, done, pinned, connVars, op>>

(* renewLoop, after a successful renewAuthority.  It does not look at      *)
(* `fenced': a tripped process that has not exited yet still renews.       *)
Renewed(f) ==
  /\ pc[f] = "patch" /\ resp[f] = "ok" /\ listening[f]
  /\ SetAuthorityDeadline(f, GrantDeadline(f))
  /\ RenewalEnds(f, "wait")
  /\ UNCHANGED <<clockVars, apiVars, podVars,
                 listening, age, fenced, done, pinned, connVars, op>>

(* renewLoop: a tick of time.Ticker.  A late goroutine may find a tick     *)
(* waiting at any time, so the poll interval puts no lower bound on the    *)
(* next renewal here; MaxVersion bounds the number of renewals, except one *)
(* that will find another client Pod and never reaches the Lease.          *)
RenewTick(f) ==
  /\ pc[f] = "wait"
  /\ lease.rv < MaxVersion \/ clientPod.uid # pinned[f]
  /\ pc' = [pc EXCEPT ![f] = "podget"]
  /\ UNCHANGED <<clockVars, apiVars, podVars, seen, sentAt, resp, authVars, pinned, connVars, op>>

-----------------------------------------------------------------------------
(* The watchdog and trip.                                                  *)

(* The latest watchdog's timer fires; it trips the fence if that has not   *)
(* happened yet.                                                           *)
Watchdog(f) ==
  /\ armed[f]
  /\ Clock(f) >= deadline[f]
  /\ armed' = [armed EXCEPT ![f] = FALSE]
  /\ fenced' = [fenced EXCEPT ![f] = TRUE]
  /\ UNCHANGED <<clockVars, apiVars, podVars, renewVars, listening, deadline,
                 age, done, pinned, connVars, op>>

(* SIGTERM (main's proxy.close, renewLoop's ctx.Done) or a health server   *)
(* that stopped serving: the locked half of trip.                          *)
TripRequested(f) ==
  /\ listening[f] /\ ~fenced[f]
  /\ fenced' = [fenced EXCEPT ![f] = TRUE]
  /\ UNCHANGED <<clockVars, apiVars, podVars, renewVars, listening, deadline,
                 armed, age, done, pinned, connVars, op>>

(* The unlocked half of trip: close the listener and every connection that *)
(* was registered when `fenced' was set, then close p.done.                *)
TripClose(f) ==
  /\ fenced[f] /\ ~done[f]
  /\ conns' = [conns EXCEPT ![f] = [c \in Conns |-> FreeConn]]
  /\ armed' = [armed EXCEPT ![f] = FALSE]
  /\ done' = [done EXCEPT ![f] = TRUE]
  /\ UNCHANGED <<clockVars, apiVars, podVars, renewVars, listening, deadline,
                 age, fenced, pinned, downstream, accepting, op>>

-----------------------------------------------------------------------------
(* Admission and connections.                                              *)

(* An IP goes to another Pod when the one that had it is gone; a Pod that  *)
(* was only deleted from the API (its node is cut off) still has its own.  *)
HasAddress(s) ==
  /\ s <= clientPod.uid
  /\ \A t \in Clients : t <= clientPod.uid /\ Address[t] = Address[s] => t <= s

(* acceptLoop: a connection from Pod s passes admitSource, which sees its  *)
(* source IP and not its UID.                                              *)
AdmitSource(f, s) ==
  /\ listening[f] /\ ~fenced[f]
  /\ accepting[f] = NoClient
  /\ \E c \in Conns : conns[f][c].st = "free"
  /\ HasAddress(s)
  /\ pinned[f] # NoClient /\ Address[s] = Address[pinned[f]]
  /\ downstream[f] \in {NoClient, Address[s]}
  /\ downstream' = [downstream EXCEPT ![f] = Address[s]]
  /\ accepting' = [accepting EXCEPT ![f] = s]
  /\ UNCHANGED <<clockVars, apiVars, podVars, renewVars, authVars, pinned, conns, op>>

Register_NoRecheck(f, c) ==
  /\ accepting[f] # NoClient
  /\ conns[f][c].st = "free"
  /\ conns' = [conns EXCEPT ![f][c] = [st |-> "registered", src |-> accepting[f], deadline |-> 0]]
  /\ accepting' = [accepting EXCEPT ![f] = NoClient]
  /\ UNCHANGED <<clockVars, apiVars, podVars, renewVars, authVars, pinned, downstream, op>>
(* acceptLoop again: it takes the lock a second time and re-checks.        *)
Register(f, c) ==
  /\ accepting[f] # NoClient
  /\ ~fenced[f]
  /\ conns[f][c].st = "free"
  /\ conns' = [conns EXCEPT ![f][c] = [st |-> "registered", src |-> accepting[f], deadline |-> 0]]
  /\ accepting' = [accepting EXCEPT ![f] = NoClient]
  /\ UNCHANGED <<clockVars, apiVars, podVars, renewVars, authVars, pinned, downstream, op>>

DropAccepted(f) ==
  /\ accepting[f] # NoClient
  /\ fenced[f]
  /\ accepting' = [accepting EXCEPT ![f] = NoClient]
  /\ UNCHANGED <<clockVars, apiVars, podVars, renewVars, authVars, pinned, downstream, conns, op>>

ConnectionDeadline_AgeOnly(f) == Clock(f) + age[f]
(* proxy: connectionDeadline, then SetDeadline and the dial, or a return.  *)
ConnectionDeadline(f) == Lesser(Clock(f) + age[f], deadline[f])
ProxyDeadline(f, c) ==
  /\ conns[f][c].st = "registered"
  /\ conns' = [conns EXCEPT ![f][c] =
                 IF Clock(f) < ConnectionDeadline(f)
                 THEN [st |-> "dialing", src |-> @.src, deadline |-> ConnectionDeadline(f)]
                 ELSE FreeConn]
  /\ UNCHANGED <<clockVars, apiVars, podVars, renewVars, authVars, pinned, downstream, accepting, op>>

(* The upstream dial succeeds: both copy goroutines run.                   *)
ProxyDial(f, c) ==
  /\ conns[f][c].st = "dialing"
  /\ conns' = [conns EXCEPT ![f][c] = [st |-> "open", src |-> @.src, deadline |-> @.deadline]]
  /\ UNCHANGED <<clockVars, apiVars, podVars, renewVars, authVars, pinned, downstream, accepting, op>>

(* The dial fails, a peer closes, or the deadline ends the copy.           *)
ProxyReturn(f, c) ==
  /\ conns[f][c].st # "free"
  /\ conns' = [conns EXCEPT ![f][c] = FreeConn]
  /\ UNCHANGED <<clockVars, apiVars, podVars, renewVars, authVars, pinned, downstream, accepting, op>>

-----------------------------------------------------------------------------
(* release-expired-hoodi-validator-fence-lease.sh.                         *)

(* quiescence_snapshot: no fence Pod and no client Pod in the API.         *)
Quiescent == ~clientPod.up /\ \A f \in Fences : pod[f] # "present"

SafelyExpired_HeldOnly == lease.holder # None /\ lease.renewed <= Clock(Operator)
SafelyExpired ==
  /\ lease.holder # None
  /\ lease.renewed <= Clock(Operator)
  /\ Clock(Operator) >= lease.renewed + duration + HandoverMargin

HandoverCheck ==
  /\ op.pc \in {"idle", "released", "critical"}
  /\ Quiescent
  /\ SafelyExpired
  /\ op' = [pc |-> "checked", seen |-> lease]
  /\ UNCHANGED <<clockVars, apiVars, podVars, renewVars, authVars, pinned, connVars>>

(* The second quiescence_snapshot, then the PATCH leaves.                  *)
HandoverSend ==
  /\ op.pc = "checked"
  /\ op' = IF Quiescent THEN [pc |-> "sent", seen |-> op.seen] ELSE HandoverEnds("idle")
  /\ UNCHANGED <<clockVars, apiVars, podVars, renewVars, authVars, pinned, connVars>>

(* The API server's answer; `told' is FALSE when the answer is lost.       *)
HandoverPatch(told) ==
  /\ op.pc = "sent"
  /\ IF lease = op.seen
     THEN /\ lease' = [rv |-> lease.rv + 1, holder |-> None, renewed |-> lease.renewed]
          /\ op' = IF told THEN [pc |-> "readback", seen |-> op.seen] ELSE HandoverEnds("idle")
     ELSE /\ lease' = lease
          /\ op' = HandoverEnds("idle")
  /\ UNCHANGED <<clockVars, duration, clientPod, net, podVars, renewVars, authVars, pinned, connVars>>

HandoverReadback ==
  /\ op.pc = "readback"
  /\ op' = HandoverEnds(IF /\ lease.holder = None
                           /\ lease.renewed = op.seen.renewed
                           /\ lease.rv # op.seen.rv
                        THEN "released" ELSE "critical")
  /\ UNCHANGED <<clockVars, apiVars, podVars, renewVars, authVars, pinned, connVars>>

-----------------------------------------------------------------------------
RenewNext(f) ==
  \/ RequestFails(f) \/ PodGet(f) \/ LeaseGet(f) \/ Refuse(f) \/ SendPatch(f)
  \/ StartServing(f) \/ Renewed(f) \/ RenewTick(f)
ConnNext(f) ==
  \/ \E s \in Clients : AdmitSource(f, s)
  \/ DropAccepted(f)
  \/ \E c \in Conns : Register(f, c) \/ ProxyDeadline(f, c) \/ ProxyDial(f, c) \/ ProxyReturn(f, c)
TripNext(f) ==
  Watchdog(f) \/ TripRequested(f) \/ TripClose(f) \/ Exit(f)
PodNext(f) == PodRemove(f) \/ Start(f) \/ Crash(f)
NetNext == \E m \in net : ApiPatch(m) \/ LosePatch(m)
HandoverNext ==
  \/ HandoverCheck \/ HandoverSend \/ HandoverReadback
  \/ \E told \in BOOLEAN : HandoverPatch(told)

Next ==
  \/ Tick \/ ClientStops \/ ClientStarts \/ NetNext \/ HandoverNext
  \/ \E f \in Fences : RenewNext(f) \/ ConnNext(f) \/ TripNext(f) \/ PodNext(f)

Spec == Init /\ [][Next]_vars

(* The scheduler runs every goroutine that can run: the watchdog's timer   *)
(* fires, trip finishes, and main leaves once p.done is closed; the        *)
(* renewal ticker fires, and each of its requests is answered or timed out.*)
Fairness ==
  \A f \in Fences :
    /\ WF_vars(RenewNext(f))
    /\ WF_vars(Watchdog(f))
    /\ WF_vars(TripClose(f))
    /\ WF_vars(Exit(f))
FairSpec == Spec /\ Fairness

-----------------------------------------------------------------------------
(* Properties.                                                             *)

TypeOK ==
  /\ now \in 0..MaxTime
  /\ offset \in [Fences \cup {Operator} -> 0..Skew]
  /\ lease \in [rv : Nat, holder : Fences \cup {None}, renewed : Nat]
  /\ duration \in Durations
  /\ clientPod \in [uid : Clients, up : BOOLEAN]
  /\ net \subseteq [from : Fences, inc : Nat, rv : Nat, holder : Fences \cup {None}, at : Nat]
  /\ pod \in [Fences -> {"new", "present", "gone"}]
  /\ starts \in [Fences -> 0..MaxStarts]
  /\ pc \in [Fences -> {"down", "podget", "leaseget", "decide", "patch", "wait", "stopped"}]
  /\ seen \in [Fences -> [rv : Nat, holder : Fences \cup {None}, renewed : Nat]]
  /\ sentAt \in [Fences -> Nat]
  /\ resp \in [Fences -> {"none", "ok", "conflict"}]
  /\ listening \in [Fences -> BOOLEAN]
  /\ deadline \in [Fences -> Nat]
  /\ armed \in [Fences -> BOOLEAN]
  /\ age \in [Fences -> 0..MaxAge]
  /\ fenced \in [Fences -> BOOLEAN]
  /\ done \in [Fences -> BOOLEAN]
  /\ pinned \in [Fences -> Clients \cup {NoClient}]
  /\ downstream \in [Fences -> Clients \cup {NoClient}]
  /\ accepting \in [Fences -> Clients \cup {NoClient}]
  /\ conns \in [Fences -> [Conns -> [st : {"free", "registered", "dialing", "open"},
                                    src : Clients \cup {NoClient}, deadline : Nat]]]
  /\ op \in [pc : {"idle", "checked", "sent", "readback", "released", "critical"},
            seen : [rv : Nat, holder : Fences \cup {None}, renewed : Nat]]

(* Connection c of fence f carries signing traffic now: both sockets are   *)
(* open and their I/O deadline has not passed on f's clock.                *)
Carries(f, c) == conns[f][c].st = "open" /\ Clock(f) < conns[f][c].deadline
CanForward(f) == \E c \in Conns : Carries(f, c)

(* No two fences forward to the signer at the same moment, whatever the    *)
(* delays, crashes, restarts, handovers and clock offsets up to the safety *)
(* margin: the fence's whole purpose (main.go:1-3).                        *)
ExclusiveForwarding ==
  \A f, g \in Fences : CanForward(f) /\ CanForward(g) => f = g

(* A promise of authority up to d on f's clock is still backed by the     *)
(* Lease, with the safety margin to spare.                                 *)
Covered(f, d) ==
  Clock(f) < d => lease.holder = f /\ d <= lease.renewed + duration - Margin

(* A fence that serves, or a tunnel that carries traffic, does so under a  *)
(* Lease that still names that Pod at the API server, and stops at least   *)
(* the safety margin before that Lease expires (acquireOrRenew's deadline, *)
(* connectionDeadline's cap).                                              *)
AuthorityUnderLease ==
  \A f \in Fences :
    /\ listening[f] => Covered(f, deadline[f])
    /\ \A c \in Conns : conns[f][c].st \in {"dialing", "open"} => Covered(f, conns[f][c].deadline)

(* When trip has closed p.done no connection is left open, not even one    *)
(* that passed admitSource before the trip and was registered during it.   *)
ClosedWhenDone ==
  \A f \in Fences : done[f] => \A c \in Conns : conns[f][c].st = "free"

(* The handover script empties holderIdentity only when no fence forwards, *)
(* not even the process of a Pod the API has already forgotten.            *)
HandoverOnlyWhenSilent ==
  [][lease.holder # None /\ lease'.holder = None => \A f \in Fences : ~CanForward(f)]_vars

(* The abstract promise: at most one fence is active, and another becomes  *)
(* active only after it went silent.                                       *)
Abstract == INSTANCE ExclusiveSigner WITH active <- {f \in Fences : CanForward(f)}
ImplementsExclusiveSigner == Abstract!Spec

(* A process whose authority deadline has passed renews it or is gone: the *)
(* watchdog, trip and main's exit never leave a lapsed fence serving       *)
(* (main.go:433-435 and 672-676).                                          *)
LapseLeadsToExit ==
  \A f \in Fences :
    (listening[f] /\ Clock(f) >= deadline[f]) ~> (~listening[f] \/ Clock(f) < deadline[f])

(* A replacement client Pod that was given the old one's IP is admitted,   *)
(* but the fence does not stay up with it: the next renewal compares the   *)
(* UID, and the process ends (main.go:403-408 and 464-472).                *)
StrangerLeadsToExit ==
  \A f \in Fences :
    (\E c \in Conns : conns[f][c].st = "open" /\ conns[f][c].src # pinned[f]) ~> ~listening[f]

-----------------------------------------------------------------------------
(* The inductive invariant.  Every promise of authority in the system - a  *)
(* PATCH on the wire, a grant just answered, a serving process, a tunnel - *)
(* is tied to the one Lease by its resource version.                       *)

(* A Lease that was read is the Lease, unless that has been written since. *)
SnapshotInv ==
  \A f \in Fences : pc[f] = "decide" =>
    seen[f].rv <= lease.rv /\ (seen[f].rv = lease.rv => seen[f] = lease)

(* A PATCH that would still match was sent by the holder after its last    *)
(* renewal, or by another fence whose clock had passed the Lease's expiry. *)
MessageInv ==
  \A m \in net :
    /\ m.rv <= lease.rv
    /\ m.at <= Clock(m.from)
    /\ m.inc <= starts[m.from]
    /\ m.inc = starts[m.from] =>
         /\ pc[m.from] \in {"patch", "stopped", "down"}
         /\ pc[m.from] = "patch" => m.at = sentAt[m.from] /\ resp[m.from] = "none"
         /\ \A n \in net : n.from = m.from /\ n.inc = m.inc => n = m
    /\ m.rv = lease.rv =>
         /\ m.holder = lease.holder
         /\ lease.holder = m.from => lease.renewed <= m.at
         /\ lease.holder \notin {None, m.from} => Clock(m.from) >= lease.renewed + duration

HolderInv == lease.holder # None => lease.renewed <= Clock(lease.holder)

GrantInv ==
  \A f \in Fences : pc[f] = "patch" =>
    /\ ValidDuration
    /\ resp[f] = "ok" => Covered(f, GrantDeadline(f))

ServingInv ==
  \A f \in Fences : ~listening[f] =>
    accepting[f] = NoClient /\ \A c \in Conns : conns[f][c].st = "free"

HandoverInv ==
  op.pc \in {"checked", "sent"} =>
    /\ op.seen.holder # None
    /\ Clock(Operator) >= op.seen.renewed + duration + HandoverMargin

(* The conjunction that is preserved by every step of the fences, the API  *)
(* server and the handover script.                                         *)
IndInv ==
  /\ TypeOK
  /\ SnapshotInv
  /\ MessageInv
  /\ HolderInv
  /\ GrantInv
  /\ ServingInv
  /\ HandoverInv
  /\ AuthorityUnderLease

=============================================================================
