----------------------------- MODULE KeepAliver -----------------------------
(***************************************************************************)
(* sofabolt/keepaliver.go, pool.go: clients pooled by address.              *)
(*                                                                         *)
(* Application goroutines (users) dial clients, offer them with Put, take   *)
(* them with Get, call through them and give them up with Del and           *)
(* GracefullyClose.  Get retires a client that was used too often.  One     *)
(* goroutine cleans up the clients that died while referenced, one probes   *)
(* the pooled clients.  A Pool is guarded by its own lock, the metrics are  *)
(* atomic counters and dying is a sync.Map, so that every step below is     *)
(* one locked section or one atomic access with what depends on it alone.   *)
(*                                                                         *)
(* A client is reduced to its metrics and to whether it is closed, by the   *)
(* KeepAliver, by the application or by its own reader; Client models the   *)
(* rest.  A pool stands for a PoolMap (raw or tls) and an address in it.    *)
(***************************************************************************)
EXTENDS Integers, Sequences, FiniteSets

CONSTANTS
  Clients, Users, Pools,
  Raw,               \* the pools of ca.raw; the others are in ca.tls
  PoolOf,            \* scheme and address of each client
  Failing,           \* bound: the clients that may close themselves or be closed directly
  None,              \* Go's nil
  MaClientConnUsed, MinClientInPool, CleanupMaxChecks

ASSUME KeepAliverAssumption ==
  /\ Raw \subseteq Pools /\ PoolOf \in [Clients -> Pools] /\ Failing \subseteq Clients
  /\ None \notin Clients /\ None \notin Pools
  /\ MaClientConnUsed \in Nat /\ MinClientInPool \in Nat
  /\ CleanupMaxChecks \in Nat \ {0}

VARIABLES
  stored, clients, next,     \* per pool: whether in its PoolMap; the Pool's fields
  used, refs, lasted,        \* per client: the metrics; lasted against the last tick
  closed,                    \* per client: Closed()
  retired,                   \* history: the clients that the KeepAliver has closed
  life,                      \* per client: not dialled, known to its dialler only, shared
  dying,                     \* per client: the checks counted in dying, 0 when not in it
  pc, cl, kp, loaded,        \* per user: its call of the KeepAliver and the locals
  ctodo, cact, cc, cn,       \* doCleanup: clients left to visit, what to do with one
  hpc, pass, htodo, hk, left, brokens  \* doHeartbeat and clientChecker

poolVars   == <<stored, clients, next>>
userVars   == <<pc, cl, kp, loaded>>
cleanVars  == <<ctodo, cact, cc, cn>>
heartVars  == <<hpc, pass, htodo, hk, left, brokens>>
clientVars == <<used, refs, lasted, closed, retired, life>>
vars == <<poolVars, clientVars, dying, userVars, cleanVars, heartVars>>

UserPC == {"idle", "hold", "do", "get", "test", "del", "grace", "store", "close",
           "refuse", "limit", "push"}

TypeOK ==
  /\ stored \in [Pools -> BOOLEAN] /\ clients \in [Pools -> Seq(Clients)]
  /\ next \in [Pools -> Nat]
  /\ used \in [Clients -> 0..MaClientConnUsed] /\ refs \in [Clients -> Int]
  /\ lasted \in [Clients -> {"recent", "old", "due"}] /\ closed \in [Clients -> BOOLEAN]
  /\ retired \subseteq Clients
  /\ life \in [Clients -> {"new", "own", "shared"}]
  /\ dying \in [Clients -> 0..CleanupMaxChecks]
  /\ pc \in [Users -> UserPC] /\ cl \in [Users -> Clients \cup {None}]
  /\ kp \in [Users -> Pools \cup {None}] /\ loaded \in [Users -> BOOLEAN]
  /\ ctodo \subseteq Clients /\ cact \in {"sleep", "visit", "keep", "close", "stopped"}
  /\ cc \in Clients \cup {None} /\ cn \in 0..CleanupMaxChecks
  /\ hpc \in {"tick", "range", "check", "probe", "refused", "delete", "close", "stopped"}
  /\ pass \in 1..2
  /\ htodo \subseteq Pools /\ hk \in Pools \cup {None}
  /\ left \in Seq(Clients) /\ brokens \in Seq(Clients)

Init ==
  /\ stored = [k \in Pools |-> FALSE] /\ clients = [k \in Pools |-> <<>>]
  /\ next = [k \in Pools |-> 0]
  /\ used = [c \in Clients |-> 0] /\ refs = [c \in Clients |-> 0]
  /\ closed = [c \in Clients |-> FALSE] /\ retired = {} /\ lasted = [c \in Clients |-> "old"]
  /\ life = [c \in Clients |-> "new"] /\ dying = [c \in Clients |-> 0]
  /\ pc = [u \in Users |-> "idle"] /\ cl = [u \in Users |-> None]
  /\ kp = [u \in Users |-> None] /\ loaded = [u \in Users |-> FALSE]
  /\ ctodo = {} /\ cact = "sleep" /\ cc = None /\ cn = 0
  /\ hpc = "tick" /\ pass = 1 /\ htodo = {} /\ hk = None
  /\ left = <<>> /\ brokens = <<>>

----------------------------------------------------------------------------
(* Pools.                                                                   *)

Has(s, c) == \E i \in 1..Len(s) : s[i] = c
Pooled(c) == \E k \in Pools : Has(clients[k], c)

(* DeleteClients removes its clients one by one with the lock held.         *)
Unlocked(k) == ~(hpc = "delete" /\ hk = k)

(* Pool.Delete and DeleteLocked: the first occurrence leaves the slice.     *)
Without(s, c) ==
  IF ~Has(s, c) THEN s
  ELSE LET i == CHOOSE i \in 1..Len(s) :
                  s[i] = c /\ \A j \in 1..Len(s) : s[j] = c => i <= j
       IN  [j \in 1..(Len(s) - 1) |-> IF j < i THEN s[j] ELSE s[j + 1]]

(* Get's and put's test that a client was used often enough.                *)
Exhausted(k, c) ==
  Len(clients[k]) >= 2 /\ MaClientConnUsed > 0 /\ used[c] >= MaClientConnUsed

(* The counter is compared with MaClientConnUsed only: it saturates there.  *)
AddUsed(c) == [used EXCEPT ![c] = IF @ < MaClientConnUsed THEN @ + 1 ELSE @]

(* Close of client c, by the KeepAliver.                                    *)
Closes(c) == closed' = [closed EXCEPT ![c] = TRUE] /\ retired' = retired \cup {c}

Enter(u, p) == pc' = [pc EXCEPT ![u] = p]

----------------------------------------------------------------------------
(* The application: dials a client, calls through one it holds, lets it go. *)

Dial(u, c) ==
  /\ pc[u] = "idle" /\ life[c] = "new"
  /\ life' = [life EXCEPT ![c] = "own"] /\ cl' = [cl EXCEPT ![u] = c] /\ Enter(u, "hold")
  /\ UNCHANGED <<poolVars, used, refs, lasted, closed, retired, dying, kp, loaded,
                 cleanVars, heartVars>>

Release(u) ==
  /\ pc[u] = "hold"
  /\ cl' = [cl EXCEPT ![u] = None] /\ Enter(u, "idle")
  /\ UNCHANGED <<poolVars, clientVars, dying, kp, loaded, cleanVars, heartVars>>

(* DoTimeout counts the use and the reference, *)
Do(u) ==
  /\ pc[u] = "hold"
  /\ used' = AddUsed(cl[u]) /\ refs' = [refs EXCEPT ![cl[u]] = @ + 1] /\ Enter(u, "do")
  /\ UNCHANGED <<poolVars, lasted, closed, retired, life, dying, cl, kp, loaded,
                 cleanVars, heartVars>>

(* and, whatever the call returned, sets lasted and drops the reference.    *)
DoEnd(u) ==
  /\ pc[u] = "do"
  /\ refs' = [refs EXCEPT ![cl[u]] = @ - 1] /\ Enter(u, "hold")
  /\ lasted' = [lasted EXCEPT ![cl[u]] = "recent"]
  /\ UNCHANGED <<poolVars, used, closed, retired, life, dying, cl, kp, loaded,
                 cleanVars, heartVars>>

(* A client closes itself when its reader has failed and there is no dialer *)
(* or the new connection cannot be set up, and the application may close    *)
(* it; whether it is pooled, in use or dying makes no difference.           *)
ClientCloses(c) ==
  /\ life[c] # "new" /\ ~closed[c] /\ closed' = [closed EXCEPT ![c] = TRUE]
  /\ UNCHANGED <<poolVars, used, refs, lasted, retired, life, dying, userVars,
                 cleanVars, heartVars>>

----------------------------------------------------------------------------
(* Put.  The application offers a client it dialled and has not pooled yet. *)

(* LoadOrStore of a new Pool that holds the client already.                 *)
PutStore(u) ==
  LET c == cl[u]
      k == PoolOf[c]
  IN  /\ pc[u] = "hold" /\ life[c] = "own"
      /\ loaded' = [loaded EXCEPT ![u] = stored[k]] /\ Enter(u, "refuse")
      /\ \/ stored[k] /\ UNCHANGED <<stored, clients, life>>
         \/ /\ ~stored[k] /\ stored' = [stored EXCEPT ![k] = TRUE]
            /\ clients' = [clients EXCEPT ![k] = <<c>>]
            /\ life' = [life EXCEPT ![c] = "shared"]
      /\ UNCHANGED <<next, used, refs, lasted, closed, retired, dying, cl, kp,
                     cleanVars, heartVars>>

(* Put returns false for a client that was used too often.                  *)
PutRefuse(u) ==
  /\ pc[u] = "refuse" /\ Unlocked(PoolOf[cl[u]])
  /\ \/ /\ Exhausted(PoolOf[cl[u]], cl[u]) /\ Enter(u, "hold")
        /\ loaded' = [loaded EXCEPT ![u] = FALSE]
     \/ ~Exhausted(PoolOf[cl[u]], cl[u]) /\ Enter(u, "limit") /\ UNCHANGED loaded
  /\ UNCHANGED <<poolVars, clientVars, dying, cl, kp, cleanVars, heartVars>>

(* Mutant: the client is pushed into the Pool that holds it already.        *)
PutLimitTwice(u, force) ==
  /\ pc[u] = "limit" /\ (force \/ Unlocked(PoolOf[cl[u]]))
  /\ Enter(u, IF \/ force
                 \/ MinClientInPool > 0 /\ Len(clients[PoolOf[cl[u]]]) <= MinClientInPool
              THEN "push" ELSE "hold")
  /\ loaded' = [loaded EXCEPT ![u] = FALSE]
  /\ UNCHANGED <<poolVars, clientVars, dying, cl, kp, cleanVars, heartVars>>

(* The client is welcome when forced or when the pool is small; a Pool that *)
(* was stored by this call has it already.                                  *)
PutLimit(u, force) ==
  /\ pc[u] = "limit" /\ (force \/ Unlocked(PoolOf[cl[u]]))
  /\ Enter(u, IF /\ loaded[u]
                 /\ \/ force
                    \/ MinClientInPool > 0 /\ Len(clients[PoolOf[cl[u]]]) <= MinClientInPool
              THEN "push" ELSE "hold")
  /\ loaded' = [loaded EXCEPT ![u] = FALSE]
  /\ UNCHANGED <<poolVars, clientVars, dying, cl, kp, cleanVars, heartVars>>

PutPush(u) ==
  LET k == PoolOf[cl[u]]
  IN  /\ pc[u] = "push" /\ Unlocked(k)
      /\ clients' = [clients EXCEPT ![k] = Append(@, cl[u])]
      /\ life' = [life EXCEPT ![cl[u]] = "shared"] /\ Enter(u, "hold")
      /\ UNCHANGED <<stored, next, used, refs, lasted, closed, retired, dying, cl, kp, loaded,
                     cleanVars, heartVars>>

----------------------------------------------------------------------------
(* Get, and what retires a client.                                          *)

Get(u, k) ==
  /\ pc[u] = "idle" /\ kp' = [kp EXCEPT ![u] = k] /\ Enter(u, "get")
  /\ UNCHANGED <<poolVars, clientVars, dying, cl, loaded, cleanVars, heartVars>>

(* Load and Pool.Get: nothing there, or the client after the last one.      *)
GetNext(u) ==
  LET k == kp[u]
      n == Len(clients[k])
      i == (next[k] + 1) % n
  IN  /\ pc[u] = "get" /\ Unlocked(k)
      /\ \/ /\ n = 0 /\ Enter(u, "idle") /\ kp' = [kp EXCEPT ![u] = None]
            /\ UNCHANGED <<next, cl>>
         \/ /\ n > 0 /\ Enter(u, "test")
            /\ next' = [next EXCEPT ![k] = i]
            /\ cl' = [cl EXCEPT ![u] = clients[k][i + 1]]
            /\ UNCHANGED kp
      /\ UNCHANGED <<stored, clients, clientVars, dying, loaded,
                     cleanVars, heartVars>>

(* Mutant: a client that was used too often is passed over, not retired.    *)
GetTestSkips(u) ==
  /\ pc[u] = "test" /\ Unlocked(kp[u])
  /\ \/ /\ Exhausted(kp[u], cl[u]) /\ Enter(u, "get") /\ UNCHANGED kp
        /\ cl' = [cl EXCEPT ![u] = None]
     \/ /\ ~Exhausted(kp[u], cl[u]) /\ Enter(u, "hold") /\ UNCHANGED cl
        /\ kp' = [kp EXCEPT ![u] = None]
  /\ UNCHANGED <<poolVars, clientVars, dying, loaded, cleanVars, heartVars>>

(* A client that was used too often is retired, any other one handed out.   *)
GetTest(u) ==
  /\ pc[u] = "test" /\ Unlocked(kp[u])
  /\ \/ Exhausted(kp[u], cl[u]) /\ Enter(u, "del") /\ UNCHANGED kp
     \/ ~Exhausted(kp[u], cl[u]) /\ Enter(u, "hold") /\ kp' = [kp EXCEPT ![u] = None]
  /\ UNCHANGED <<poolVars, clientVars, dying, cl, loaded, cleanVars, heartVars>>

(* The application gives a client up: Del, then GracefullyClose.            *)
Drop(u) ==
  /\ pc[u] = "hold"
  /\ life' = [life EXCEPT ![cl[u]] = "shared"] /\ Enter(u, "del")
  /\ UNCHANGED <<poolVars, used, refs, lasted, closed, retired, dying, cl, kp, loaded,
                 cleanVars, heartVars>>

Del(u) ==
  LET k == PoolOf[cl[u]]
  IN  /\ pc[u] = "del" /\ Unlocked(k)
      /\ clients' = [clients EXCEPT ![k] = Without(@, cl[u])] /\ Enter(u, "grace")
      /\ UNCHANGED <<stored, next, clientVars, dying, cl, kp, loaded,
                     cleanVars, heartVars>>

(* GracefullyClose reads the references and acts on them in a second step.  *)
GracefullyClose(u) ==
  /\ pc[u] = "grace" /\ Enter(u, IF refs[cl[u]] > 0 THEN "store" ELSE "close")
  /\ UNCHANGED <<poolVars, clientVars, dying, cl, kp, loaded,
                 cleanVars, heartVars>>

(* Afterwards Get tries the next client; the application is done with its.  *)
Retired(u) ==
  /\ Enter(u, IF kp[u] # None THEN "get" ELSE "idle") /\ cl' = [cl EXCEPT ![u] = None]
  /\ UNCHANGED <<kp, loaded>>

GraceStore(u) ==
  /\ pc[u] = "store" /\ dying' = [dying EXCEPT ![cl[u]] = 1] /\ Retired(u)
  /\ UNCHANGED <<poolVars, clientVars, cleanVars, heartVars>>

GraceClose(u) ==
  /\ pc[u] = "close" /\ Closes(cl[u]) /\ Retired(u)
  /\ UNCHANGED <<poolVars, used, refs, lasted, life, dying, cleanVars, heartVars>>

----------------------------------------------------------------------------
(* doCleanup: after every sleep a Range over dying.                         *)

CleanWake ==
  /\ cact = "sleep" /\ cact' = "visit" /\ ctodo' = {c \in Clients : dying[c] # 0}
  /\ UNCHANGED <<poolVars, clientVars, dying, userVars, cc, cn, heartVars>>

(* Either goroutine ends when it finds options.Context done.                *)
CleanStop ==
  /\ cact = "sleep" /\ cact' = "stopped"
  /\ UNCHANGED <<poolVars, clientVars, dying, userVars, ctodo, cc, cn, heartVars>>

(* Mutant: an unreferenced client is skipped, as the code's log has it.     *)
CleanVisitSkips(c) ==
  /\ cact = "visit" /\ c \in ctodo /\ ctodo' = ctodo \ {c}
  /\ IF dying[c] >= CleanupMaxChecks \/ refs[c] > 0
     THEN cc' = c /\ cn' = dying[c] /\ cact' = IF dying[c] < CleanupMaxChecks THEN "keep" ELSE "close"
     ELSE UNCHANGED <<cact, cc, cn>>
  /\ UNCHANGED <<poolVars, clientVars, dying, userVars, heartVars>>

(* Mutant: one check too many.                                              *)
CleanVisitMore(c) ==
  /\ cact = "visit" /\ c \in ctodo /\ ctodo' = ctodo \ {c} /\ cc' = c /\ cn' = dying[c]
  /\ cact' = IF dying[c] <= CleanupMaxChecks /\ refs[c] > 0 THEN "keep" ELSE "close"
  /\ UNCHANGED <<poolVars, clientVars, dying, userVars, heartVars>>

(* Closed after CleanupMaxChecks checks or when unreferenced, else counted. *)
CleanVisit(c) ==
  /\ cact = "visit" /\ c \in ctodo /\ ctodo' = ctodo \ {c} /\ cc' = c /\ cn' = dying[c]
  /\ cact' = IF dying[c] < CleanupMaxChecks /\ refs[c] > 0 THEN "keep" ELSE "close"
  /\ UNCHANGED <<poolVars, clientVars, dying, userVars, heartVars>>

CleanKeep ==
  /\ cact = "keep" /\ dying' = [dying EXCEPT ![cc] = cn + 1]
  /\ cact' = "visit" /\ cc' = None /\ cn' = 0
  /\ UNCHANGED <<poolVars, clientVars, userVars, ctodo, heartVars>>

(* The client is closed and stays in dying.                                 *)
CleanClose ==
  /\ cact = "close" /\ Closes(cc)
  /\ cact' = "visit" /\ cc' = None /\ cn' = 0
  /\ UNCHANGED <<poolVars, used, refs, lasted, life, dying, userVars, ctodo,
                 heartVars>>

CleanRound ==
  /\ cact = "visit" /\ ctodo = {} /\ cact' = "sleep"
  /\ UNCHANGED <<poolVars, clientVars, dying, userVars, ctodo, cc, cn, heartVars>>

----------------------------------------------------------------------------
(* doHeartbeat: every tick two Ranges over ca.raw.                          *)

RawStored == {k \in Raw : stored[k]}

(* A tick finds lasted an interval ago for the clients not used since the   *)
(* tick before, and for some of the others: lasted counts whole seconds.    *)
HeartTick ==
  /\ hpc = "tick"
  /\ \E late \in SUBSET {c \in Clients : lasted[c] = "recent"} :
       lasted' = [c \in Clients |-> IF lasted[c] = "old" \/ c \in late THEN "due" ELSE "old"]
  /\ hpc' = "range" /\ pass' = 1 /\ htodo' = RawStored
  /\ UNCHANGED <<poolVars, used, refs, closed, retired, life, dying, userVars, cleanVars,
                 hk, left, brokens>>

HeartStop ==
  /\ hpc = "tick" /\ hpc' = "stopped"
  /\ UNCHANGED <<poolVars, clientVars, dying, userVars, cleanVars,
                 pass, htodo, hk, left, brokens>>

(* The second Range, for which clientChecker is told "tls", is of ca.raw.   *)
HeartRange ==
  /\ hpc = "range" /\ htodo = {}
  /\ \/ pass = 1 /\ pass' = 2 /\ htodo' = RawStored /\ UNCHANGED <<lasted, hpc>>
     \/ /\ pass = 2 /\ pass' = 1 /\ hpc' = "tick" /\ UNCHANGED htodo
        /\ lasted' = [c \in Clients |-> IF lasted[c] = "due" THEN "old" ELSE lasted[c]]
  /\ UNCHANGED <<poolVars, used, refs, closed, retired, life, dying, userVars, cleanVars,
                 hk, left, brokens>>

(* clientChecker works on a copy of the clients,                            *)
HeartCopy(k) ==
  /\ hpc = "range" /\ k \in htodo /\ htodo' = htodo \ {k} /\ hk' = k
  /\ left' = clients[k] /\ hpc' = "check"
  /\ UNCHANGED <<poolVars, clientVars, dying, userVars, cleanVars,
                 pass, brokens>>

(* Mutant: the clients that are due are skipped as well.                    *)
HeartSkipAll ==
  /\ hpc = "check" /\ left # <<>> /\ left' = Tail(left)
  /\ UNCHANGED <<poolVars, clientVars, dying, userVars, cleanVars,
                 hpc, pass, htodo, hk, brokens>>

HeartSkip ==
  /\ hpc = "check" /\ left # <<>> /\ lasted[Head(left)] # "due" /\ left' = Tail(left)
  /\ UNCHANGED <<poolVars, clientVars, dying, userVars, cleanVars,
                 hpc, pass, htodo, hk, brokens>>

(* probes those that are due with a DoTimeout, which a closed client        *)
(* refuses,                                                                 *)
HeartProbe ==
  /\ hpc = "check" /\ left # <<>> /\ lasted[Head(left)] = "due"
  /\ hpc' = IF closed[Head(left)] THEN "refused" ELSE "probe"
  /\ used' = AddUsed(Head(left)) /\ refs' = [refs EXCEPT ![Head(left)] = @ + 1]
  /\ UNCHANGED <<poolVars, lasted, closed, retired, life, dying, userVars, cleanVars,
                 pass, htodo, hk, left, brokens>>

(* and keeps those that failed.                                             *)
HeartAnswer(failed) ==
  LET c == Head(left)
  IN  /\ hpc \in {"probe", "refused"} /\ (hpc = "refused" => failed)
      /\ refs' = [refs EXCEPT ![c] = @ - 1] /\ lasted' = [lasted EXCEPT ![c] = "recent"]
      /\ brokens' = IF failed THEN Append(brokens, c) ELSE brokens
      /\ left' = Tail(left) /\ hpc' = "check"
      /\ UNCHANGED <<poolVars, used, closed, retired, life, dying, userVars, cleanVars,
                     pass, htodo, hk>>

(* Mutant: the broken clients are closed before they are deleted.           *)
HeartCheckedClose ==
  /\ hpc = "check" /\ left = <<>> /\ left' = brokens
  /\ hpc' = IF brokens = <<>> THEN "range" ELSE "close"
  /\ UNCHANGED <<poolVars, clientVars, dying, userVars, cleanVars,
                 pass, htodo, hk, brokens>>

(* DeleteClients takes the lock when there is something to delete,          *)
HeartChecked ==
  /\ hpc = "check" /\ left = <<>> /\ left' = brokens
  /\ hpc' = IF brokens = <<>> THEN "range" ELSE "delete"
  /\ UNCHANGED <<poolVars, clientVars, dying, userVars, cleanVars,
                 pass, htodo, hk, brokens>>

HeartDelete ==
  /\ hpc = "delete" /\ left # <<>> /\ left' = Tail(left)
  /\ clients' = [clients EXCEPT ![hk] = Without(@, Head(left))]
  /\ hpc' = IF Tail(left) = <<>> THEN "close" ELSE "delete"
  /\ UNCHANGED <<stored, next, clientVars, dying, userVars, cleanVars,
                 pass, htodo, hk, brokens>>

(* and the broken clients are closed without it.                            *)
HeartClose ==
  /\ hpc = "close" /\ brokens # <<>> /\ brokens' = Tail(brokens)
  /\ Closes(Head(brokens))
  /\ hpc' = IF Tail(brokens) = <<>> THEN "range" ELSE "close"
  /\ UNCHANGED <<poolVars, used, refs, lasted, life, dying, userVars, cleanVars,
                 pass, htodo, hk, left>>

----------------------------------------------------------------------------
UserStep(u) ==
  \/ DoEnd(u) \/ PutRefuse(u) \/ (\E force \in BOOLEAN : PutLimit(u, force)) \/ PutPush(u)
  \/ GetNext(u) \/ GetTest(u) \/ Del(u) \/ GracefullyClose(u) \/ GraceStore(u) \/ GraceClose(u)

UserChoice(u) ==
  \/ \E c \in Clients : Dial(u, c)
  \/ \E k \in Pools : Get(u, k)
  \/ Release(u) \/ Do(u) \/ PutStore(u) \/ Drop(u)

Cleanup ==
  \/ CleanWake \/ CleanStop \/ (\E c \in Clients : CleanVisit(c)) \/ CleanKeep \/ CleanClose \/ CleanRound

Heartbeat ==
  \/ HeartTick \/ HeartRange \/ (\E k \in Pools : HeartCopy(k)) \/ HeartSkip \/ HeartProbe
  \/ (\E failed \in BOOLEAN : HeartAnswer(failed))
  \/ HeartChecked \/ HeartDelete \/ HeartClose \/ HeartStop

Next ==
  \/ \E u \in Users : UserStep(u) \/ UserChoice(u)
  \/ \E c \in Failing : ClientCloses(c)
  \/ Cleanup \/ Heartbeat

(* A goroutine inside the KeepAliver or inside a call goes on, and so do    *)
(* the two background goroutines; what the application calls is its choice. *)
Fairness ==
  /\ \A u \in Users : WF_vars(UserStep(u))
  /\ WF_vars(Cleanup) /\ WF_vars(Heartbeat)

Spec == Init /\ [][Next]_vars /\ Fairness

----------------------------------------------------------------------------
Once(s) == \A i, j \in 1..Len(s) : s[i] = s[j] => i = j

(* No client is pooled twice, and none under an address that is not its    *)
(* own: Delete takes one occurrence out, so a second one would outlive it  *)
(* (pool.go:70-80, keepaliver.go:206-221).                                  *)
PooledOnce ==
  \A k \in Pools : Once(clients[k]) /\ \A c \in Clients : Has(clients[k], c) => PoolOf[c] = k

(* A client that is dying or that the KeepAliver has closed is in no pool,  *)
(* so that no later Pool.Get finds it (keepaliver.go:110-124, 162-168,      *)
(* 248-253): closing comes after the deletion, and no late Push brings a    *)
(* client back.  A client that closed itself may well be pooled.            *)
RetiredOut == \A c \in Clients : dying[c] # 0 \/ c \in retired => ~Pooled(c)

(* While the context lives a dying client is closed in the end, also when  *)
(* its references never drop to zero (keepaliver.go:110-124).               *)
DyingCloses == \A c \in Clients : dying[c] # 0 ~> closed[c] \/ cact = "stopped"

Calling(c) == \E u \in Users : pc[u] = "do" /\ cl[u] = c
Probing(c) == hpc = "probe" /\ Head(left) = c

(* While the context lives, a raw client that stays pooled without being    *)
(* called is probed again and again.  A closed client refuses the probe, so *)
(* that one that closed itself does not stay: it is found out and deleted   *)
(* (keepaliver.go:150-168, 179-187).  A call refreshes lasted, whether it   *)
(* fails or not, and puts the probe off: of a closed client that is called  *)
(* again and again nothing is said.                                         *)
IdleProbed ==
  \A c \in Clients :
    PoolOf[c] \in Raw /\ <>[](Pooled(c) /\ ~Calling(c)) => []<>(Probing(c) \/ hpc = "stopped")

(* Get comes back, with a client or without: its loop retires a client per *)
(* round (keepaliver.go:242-256).                                           *)
GetReturns == \A u \in Users : pc[u] = "get" ~> pc[u] \in {"hold", "idle"}
=============================================================================
