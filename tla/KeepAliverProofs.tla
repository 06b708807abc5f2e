-------------------------- MODULE KeepAliverProofs --------------------------
(***************************************************************************)
(* Proofs about KeepAliver, for every number of clients, users and pools.   *)
(* The argument is about who knows a client: until it is pooled or given up *)
(* only its dialler does, and afterwards nobody pushes it any more.  So a   *)
(* client that left its pool does not come back, whoever still holds it.    *)
(***************************************************************************)
EXTENDS KeepAliver, TLAPS

(* What a user's position in its call says about the client it holds.       *)
UserInv ==
  \A u \in Users :
    /\ pc[u] \in {"idle", "get"} <=> cl[u] = None
    /\ pc[u] \in {"get", "test"} => kp[u] \in Pools
    /\ cl[u] # None => life[cl[u]] # "new"
    /\ pc[u] \in {"test", "del", "grace", "store", "close"} => life[cl[u]] = "shared"
    /\ pc[u] = "push" \/ (pc[u] \in {"refuse", "limit"} /\ loaded[u]) => life[cl[u]] = "own"
    /\ pc[u] \in {"grace", "store", "close"} => ~Pooled(cl[u])

(* Two users hold the same client only when it is shared.                   *)
HoldInv ==
  \A u, v \in Users : u # v /\ cl[u] # None /\ cl[u] = cl[v] => life[cl[u]] = "shared"

PoolInv == PooledOnce /\ \A c \in Clients : Pooled(c) => life[c] = "shared"

(* What is dying, and what the KeepAliver has closed, left its pool before. *)
DeadInv ==
  \A c \in Clients : dying[c] # 0 \/ c \in retired => life[c] = "shared" /\ ~Pooled(c)

(* doCleanup visits what is in dying, and nothing leaves dying.             *)
CleanInv ==
  /\ \A c \in ctodo : dying[c] # 0
  /\ cact \in {"keep", "close"} => cc \in Clients /\ dying[cc] # 0
  /\ cact = "keep" => cn < CleanupMaxChecks

(* What clientChecker copied was pooled under hk; what it closes is out.    *)
HeartInv ==
  /\ hpc \in {"tick", "range", "stopped"} => left = <<>> /\ brokens = <<>>
  /\ hpc \in {"check", "probe", "refused", "delete", "close"} => hk \in Pools
  /\ hpc \in {"probe", "refused"} => left # <<>>
  /\ hpc = "close" => left = <<>>
  /\ \A c \in Clients : Has(left, c) \/ Has(brokens, c) => life[c] = "shared" /\ PoolOf[c] = hk
  /\ hpc \in {"delete", "close"} =>
       \A c \in Clients : Has(brokens, c) => Has(left, c) \/ ~Pooled(c)

IndInv == TypeOK /\ UserInv /\ HoldInv /\ PoolInv /\ DeadInv /\ CleanInv /\ HeartInv

-----------------------------------------------------------------------------
(* Slices.                                                                  *)

(* append adds one element.                                                 *)
LEMMA AppendHas ==
  ASSUME NEW s \in Seq(Clients), NEW x \in Clients
  PROVE  /\ Append(s, x) \in Seq(Clients)
         /\ \A c : Has(Append(s, x), c) <=> Has(s, c) \/ c = x
         /\ Once(s) /\ ~Has(s, x) => Once(Append(s, x))
  BY DEF Has, Once

(* A loop over a slice meets its first element, then the others.            *)
LEMMA TailHas ==
  ASSUME NEW s \in Seq(Clients), s # <<>>
  PROVE  /\ Head(s) \in Clients /\ Tail(s) \in Seq(Clients) /\ Has(s, Head(s))
         /\ \A c : Has(s, c) <=> c = Head(s) \/ Has(Tail(s), c)
<1>1. Head(s) = s[1] /\ 1 \in 1..Len(s) /\ Head(s) \in Clients /\ Tail(s) \in Seq(Clients)
  OBVIOUS
<1>2. Len(Tail(s)) = Len(s) - 1 /\ \A i \in 1..Len(Tail(s)) : Tail(s)[i] = s[i + 1]
  OBVIOUS
<1>3. ASSUME NEW c, Has(s, c) PROVE c = Head(s) \/ Has(Tail(s), c)
  <2>1. PICK i \in 1..Len(s) : s[i] = c
    BY <1>3 DEF Has
  <2>2. CASE i = 1
    BY <1>1, <2>1, <2>2
  <2>3. CASE i # 1
    <3>1. i - 1 \in 1..Len(Tail(s)) /\ Tail(s)[i - 1] = c
      BY <1>2, <2>1, <2>3
    <3> QED
      BY <3>1 DEF Has
  <2> QED
    BY <2>2, <2>3
<1>4. ASSUME NEW c, Has(Tail(s), c) PROVE Has(s, c)
  <2>1. PICK i \in 1..Len(Tail(s)) : Tail(s)[i] = c
    BY <1>4 DEF Has
  <2>2. i + 1 \in 1..Len(s) /\ s[i + 1] = c
    BY <1>2, <2>1
  <2> QED
    BY <2>2 DEF Has
<1>5. Has(s, Head(s))
  BY <1>1 DEF Has
<1> QED
  BY <1>1, <1>3, <1>4, <1>5

(* The empty slice, and the slice of NewPool with its first client.         *)
LEMMA SmallHas ==
  ASSUME NEW x \in Clients
  PROVE  /\ \A c : ~Has(<<>>, c)
         /\ Once(<<x>>) /\ <<x>> \in Seq(Clients) /\ \A c : Has(<<x>>, c) <=> c = x
  BY DEF Has, Once

(* Delete takes a client out of a slice that holds nothing twice, and      *)
(* neither adds nor duplicates anything.                                    *)
LEMMA WithoutHas ==
  ASSUME NEW s \in Seq(Clients), NEW x \in Clients, Once(s)
  PROVE  /\ Without(s, x) \in Seq(Clients) /\ Once(Without(s, x)) /\ ~Has(Without(s, x), x)
         /\ \A c : Has(Without(s, x), c) => Has(s, c)
<1>1. CASE ~Has(s, x)
  BY <1>1 DEF Without
<1>2. CASE Has(s, x)
  <2>1. PICK m \in 1..Len(s) : s[m] = x
    BY <1>2 DEF Has
  <2>2. m = CHOOSE i \in 1..Len(s) : s[i] = x /\ \A j \in 1..Len(s) : s[j] = x => i <= j
    BY <2>1 DEF Once
  <2> DEFINE t == [j \in 1..(Len(s) - 1) |-> IF j < m THEN s[j] ELSE s[j + 1]]
  <2>3. Without(s, x) = t
    BY <1>2, <2>2 DEF Without
  <2>4. t \in Seq(Clients) /\ Len(t) = Len(s) - 1
    BY <2>1
  <2>5. \A j \in 1..Len(t) : \E i \in 1..Len(s) : i # m /\ t[j] = s[i] /\ (i = j \/ i = j + 1)
                                                  /\ (i = j <=> j < m)
    <3> SUFFICES ASSUME NEW j \in 1..Len(t)
                 PROVE  \E i \in 1..Len(s) : i # m /\ t[j] = s[i] /\ (i = j \/ i = j + 1)
                                             /\ (i = j <=> j < m)
      OBVIOUS
    <3>1. CASE j < m
      <4>1. j \in 1..Len(s) /\ t[j] = s[j]
        BY <2>4, <3>1
      <4> QED
        BY <3>1, <4>1
    <3>2. CASE ~(j < m)
      <4>1. j + 1 \in 1..Len(s) /\ j + 1 # m /\ t[j] = s[j + 1]
        BY <2>4, <3>2
      <4> QED
        BY <3>2, <4>1
    <3> QED
      BY <3>1, <3>2
  <2>6. Once(t)
    <3> SUFFICES ASSUME NEW j \in 1..Len(t), NEW l \in 1..Len(t), t[j] = t[l] PROVE j = l
      BY DEF Once
    <3>1. PICK a \in 1..Len(s) : t[j] = s[a] /\ (a = j \/ a = j + 1) /\ (a = j <=> j < m)
      BY <2>5
    <3>2. PICK b \in 1..Len(s) : t[l] = s[b] /\ (b = l \/ b = l + 1) /\ (b = l <=> l < m)
      BY <2>5
    <3>3. a = b
      BY <3>1, <3>2 DEF Once
    <3> HIDE DEF t
    <3> QED
      BY <2>1, <2>4, <3>1, <3>2, <3>3
  <2>7. ~Has(t, x)
    <3> HIDE DEF t
    <3> QED
      BY <2>1, <2>5 DEF Has, Once
  <2>8. \A c : Has(t, c) => Has(s, c)
    <3> HIDE DEF t
    <3> QED
      BY <2>5 DEF Has
  <2> QED
    BY <2>3, <2>4, <2>6, <2>7, <2>8
<1> QED
  BY <1>1, <1>2

-----------------------------------------------------------------------------
(* A KeepAliver without clients.                                            *)
LEMMA InitInv == Init => IndInv
<1> SUFFICES ASSUME Init PROVE IndInv
  OBVIOUS
<1> USE KeepAliverAssumption DEF Init
<1>1. TypeOK
  BY DEF TypeOK, UserPC
<1>2. \A k \in Pools : \A c : ~Has(clients[k], c)
  BY DEF Has
<1>3. \A c : ~Has(left, c) /\ ~Has(brokens, c)
  BY DEF Has
<1>4. PoolInv /\ DeadInv
  BY <1>2 DEF PoolInv, PooledOnce, Once, Pooled, DeadInv
<1>5. UserInv /\ HoldInv
  BY DEF UserInv, HoldInv
<1>6. CleanInv /\ HeartInv
  BY <1>3 DEF CleanInv, HeartInv
<1> QED
  BY <1>1, <1>4, <1>5, <1>6 DEF IndInv

(* What a step may do to the knowledge others rely on: a shared client      *)
(* stays shared, is not pooled again, and what is dying stays in dying.     *)
Keeps ==
  \A c \in Clients :
    /\ life[c] = "shared" => life'[c] = "shared"
    /\ life[c] = "shared" /\ Pooled(c)' => Pooled(c)
    /\ dying[c] # 0 => dying'[c] # 0

(* Such a step leaves doCleanup's part of the invariant alone,              *)
LEMMA CleanKept == TypeOK /\ CleanInv /\ Keeps /\ UNCHANGED cleanVars => CleanInv'
  BY DEF TypeOK, CleanInv, Keeps, cleanVars

(* doHeartbeat's part,                                                      *)
LEMMA HeartKept == HeartInv /\ Keeps /\ UNCHANGED heartVars => HeartInv'
<1> SUFFICES ASSUME HeartInv, Keeps, UNCHANGED heartVars PROVE HeartInv'
  OBVIOUS
<1>1. \A c : Has(left, c)' = Has(left, c) /\ Has(brokens, c)' = Has(brokens, c)
  BY DEF heartVars, Has
<1> QED
  BY <1>1 DEF HeartInv, Keeps, heartVars

(* and the users'.                                                          *)
LEMMA UsersKept ==
  TypeOK /\ UserInv /\ HoldInv /\ Keeps /\ UNCHANGED <<userVars, life>> => UserInv' /\ HoldInv'
<1> SUFFICES ASSUME TypeOK, UserInv, HoldInv, Keeps, UNCHANGED <<userVars, life>>
             PROVE  UserInv' /\ HoldInv'
  OBVIOUS
<1>1. HoldInv'
  BY DEF HoldInv, userVars
<1>2. ASSUME NEW u \in Users, pc[u] \in {"grace", "store", "close"} PROVE ~Pooled(cl[u])'
  <2>0. cl[u] \in Clients \cup {None}
    BY DEF TypeOK
  <2>1. cl[u] \in Clients /\ life[cl[u]] = "shared" /\ ~Pooled(cl[u])
    BY <1>2, <2>0 DEF UserInv
  <2>2. \A c \in Clients : life[c] = "shared" /\ Pooled(c)' => Pooled(c)
    BY DEF Keeps
  <2>3. cl' = cl
    BY DEF userVars
  <2> QED
    BY <2>1, <2>2, <2>3 DEF Pooled
<1>3. UserInv'
  BY <1>2 DEF UserInv, userVars
<1> QED
  BY <1>1, <1>3

-----------------------------------------------------------------------------
(* The steps of a user.                                                     *)

(* Steps that read: no pool, no client's fate and no one else's position.   *)
Looking(u) ==
  \/ Release(u) \/ Do(u) \/ DoEnd(u) \/ PutRefuse(u) \/ (\E force \in BOOLEAN : PutLimit(u, force))
  \/ (\E k \in Pools : Get(u, k)) \/ GetNext(u) \/ GetTest(u) \/ GracefullyClose(u)

(* Pool.Get's index is inside the slice, whatever next was left at.         *)
LEMMA GetInside ==
  ASSUME NEW s \in Seq(Clients), NEW m \in Nat, Len(s) > 0
  PROVE  /\ (m + 1) % Len(s) \in Nat /\ s[((m + 1) % Len(s)) + 1] \in Clients
         /\ Has(s, s[((m + 1) % Len(s)) + 1])
<1>1. Len(s) \in Nat /\ (m + 1) % Len(s) \in 0..(Len(s) - 1)
  OBVIOUS
<1>2. ((m + 1) % Len(s)) + 1 \in 1..Len(s)
  BY <1>1
<1> QED
  BY <1>1, <1>2 DEF Has

(* After a look the user stands where the client it holds lets it stand.    *)
LEMMA LookingUser ==
  ASSUME NEW u \in Users, IndInv, Looking(u)
  PROVE  UserInv' /\ HoldInv'
<1> USE KeepAliverAssumption
<1>1. UNCHANGED <<clients, life>>
  BY DEF Looking, Release, Do, DoEnd, PutRefuse, PutLimit, Get, GetNext, GetTest, GracefullyClose,
         poolVars, clientVars
<1>2. \A c : Pooled(c)' = Pooled(c)
  BY <1>1 DEF Pooled
<1>3. /\ pc \in [Users -> UserPC] /\ cl \in [Users -> Clients \cup {None}]
      /\ kp \in [Users -> Pools \cup {None}] /\ loaded \in [Users -> BOOLEAN]
  BY DEF IndInv, TypeOK
<1>4. CASE Release(u)
  BY <1>1, <1>2, <1>3, <1>4 DEF Release, Enter, IndInv, UserInv, HoldInv
<1>5. CASE Do(u) \/ DoEnd(u)
  BY <1>1, <1>2, <1>3, <1>5 DEF Do, DoEnd, Enter, IndInv, UserInv, HoldInv
<1>6. CASE PutRefuse(u)
  BY <1>1, <1>2, <1>3, <1>6 DEF PutRefuse, Enter, IndInv, UserInv, HoldInv
<1>7. CASE \E force \in BOOLEAN : PutLimit(u, force)
  BY <1>1, <1>2, <1>3, <1>7 DEF PutLimit, Enter, IndInv, UserInv, HoldInv
<1>8. CASE \E k \in Pools : Get(u, k)
  BY <1>1, <1>2, <1>3, <1>8 DEF Get, Enter, IndInv, UserInv, HoldInv
<1>9. CASE GetNext(u)
  <2> DEFINE k == kp[u]
             i == (next[k] + 1) % Len(clients[k])
  <2>1. /\ pc[u] = "get" /\ k \in Pools /\ clients[k] \in Seq(Clients) /\ next[k] \in Nat
        /\ cl[u] = None /\ UNCHANGED loaded
    BY <1>9 DEF GetNext, IndInv, UserInv, TypeOK
  <2>2. CASE Len(clients[k]) = 0
    BY <1>1, <1>2, <1>3, <1>9, <2>1, <2>2 DEF GetNext, Enter, IndInv, UserInv, HoldInv
  <2>3. CASE Len(clients[k]) # 0
    <3> DEFINE c == clients[k][i + 1]
    <3>0. Len(clients[k]) > 0
      BY <2>1, <2>3
    <3>1. c \in Clients /\ Has(clients[k], c)
      BY <2>1, <3>0, GetInside
    <3>2. life[c] = "shared"
      BY <2>1, <3>1 DEF IndInv, PoolInv, Pooled
    <3>3. /\ pc' = [pc EXCEPT ![u] = "test"] /\ cl' = [cl EXCEPT ![u] = c] /\ kp' = kp
      BY <1>9, <2>1, <2>3 DEF GetNext, Enter
    <3> HIDE DEF c, i
    <3> QED
      BY <1>1, <1>2, <1>3, <2>1, <3>1, <3>2, <3>3 DEF IndInv, UserInv, HoldInv
  <2> QED
    BY <2>2, <2>3
<1>10. CASE GetTest(u)
  BY <1>1, <1>2, <1>3, <1>10 DEF GetTest, Enter, IndInv, UserInv, HoldInv
<1>11. CASE GracefullyClose(u)
  BY <1>1, <1>2, <1>3, <1>11 DEF GracefullyClose, Enter, IndInv, UserInv, HoldInv
<1> QED
  BY <1>4, <1>5, <1>6, <1>7, <1>8, <1>9, <1>10, <1>11 DEF Looking

(* The counters, indices and positions a look changes keep their types.     *)
LEMMA LookingType == ASSUME NEW u \in Users, IndInv, Looking(u) PROVE TypeOK'
<1> USE KeepAliverAssumption DEF IndInv, poolVars, clientVars, cleanVars, heartVars, Enter, UserPC
<1>1. TypeOK /\ UserInv
  OBVIOUS
<1>2. cl[u] \in Clients \cup {None} /\ (pc[u] \notin {"idle", "get"} => cl[u] \in Clients)
  BY <1>1 DEF TypeOK, UserInv
<1>3. CASE Release(u)
  BY <1>1, <1>3 DEF TypeOK, Release
<1>4. CASE Do(u)
  <2>1. used' \in [Clients -> 0..MaClientConnUsed] /\ refs' \in [Clients -> Int]
    <3>1. cl[u] \in Clients /\ used[cl[u]] \in 0..MaClientConnUsed /\ refs[cl[u]] \in Int
      BY <1>1, <1>2, <1>4 DEF TypeOK, Do
    <3>2. used' = AddUsed(cl[u]) /\ refs' = [refs EXCEPT ![cl[u]] = refs[cl[u]] + 1]
      BY <1>4 DEF Do
    <3>3. used \in [Clients -> 0..MaClientConnUsed] /\ refs \in [Clients -> Int]
      BY <1>1 DEF TypeOK
    <3> QED
      BY <3>1, <3>2, <3>3 DEF AddUsed
  <2>2. pc' \in [Users -> UserPC]
    BY <1>1, <1>4 DEF TypeOK, Do
  <2> QED
    BY <1>1, <1>4, <2>1, <2>2 DEF TypeOK, Do
<1>5. CASE DoEnd(u)
  <2>1. refs' \in [Clients -> Int] /\ lasted' \in [Clients -> {"recent", "old", "due"}]
    <3>1. cl[u] \in Clients /\ refs[cl[u]] \in Int
      BY <1>1, <1>2, <1>5 DEF TypeOK, DoEnd
    <3>2. /\ refs \in [Clients -> Int] /\ lasted \in [Clients -> {"recent", "old", "due"}]
      BY <1>1 DEF TypeOK
    <3> QED
      BY <1>5, <3>1, <3>2 DEF DoEnd
  <2>2. pc' \in [Users -> UserPC]
    BY <1>1, <1>5 DEF TypeOK, DoEnd
  <2> QED
    BY <1>1, <1>5, <2>1, <2>2 DEF TypeOK, DoEnd
<1>6. CASE PutRefuse(u)
  <2>1. loaded' \in [Users -> BOOLEAN]
    BY <1>1, <1>6, Zenon DEF TypeOK, PutRefuse
  <2> QED
    BY <1>1, <1>6, <2>1 DEF TypeOK, PutRefuse
<1>7. CASE \E force \in BOOLEAN : PutLimit(u, force)
  BY <1>1, <1>7, SMTT(60) DEF TypeOK, PutLimit
<1>8. CASE \E k \in Pools : Get(u, k)
  BY <1>1, <1>8, SMTT(60) DEF TypeOK, Get
<1>9. CASE GetNext(u)
  <2>1. kp[u] \in Pools /\ clients[kp[u]] \in Seq(Clients) /\ next[kp[u]] \in Nat
    BY <1>1, <1>9 DEF TypeOK, UserInv, GetNext
  <2> DEFINE i == (next[kp[u]] + 1) % Len(clients[kp[u]])
             c == clients[kp[u]][i + 1]
  <2>2. Len(clients[kp[u]]) > 0 => i \in Nat /\ c \in Clients
    BY <2>1, GetInside
  <2>3. /\ kp' = kp \/ kp' = [kp EXCEPT ![u] = None]
        /\ pc' = [pc EXCEPT ![u] = "idle"] \/ pc' = [pc EXCEPT ![u] = "test"]
        /\ \/ next' = next /\ cl' = cl
           \/ /\ Len(clients[kp[u]]) > 0 /\ next' = [next EXCEPT ![kp[u]] = i]
              /\ cl' = [cl EXCEPT ![u] = c]
    BY <1>9 DEF GetNext
  <2>4. /\ next \in [Pools -> Nat] /\ cl \in [Users -> Clients \cup {None}]
        /\ kp \in [Users -> Pools \cup {None}] /\ pc \in [Users -> UserPC]
    BY <1>1 DEF TypeOK
  <2> HIDE DEF i, c
  <2>5. /\ next' \in [Pools -> Nat] /\ cl' \in [Users -> Clients \cup {None}]
        /\ kp' \in [Users -> Pools \cup {None}] /\ pc' \in [Users -> UserPC]
    <3>1. next' \in [Pools -> Nat]
      BY <2>1, <2>2, <2>3, <2>4
    <3>2. cl' \in [Users -> Clients \cup {None}]
      BY <2>2, <2>3, <2>4
    <3>3. kp' \in [Users -> Pools \cup {None}]
      BY <2>3, <2>4
    <3>4. pc' \in [Users -> UserPC]
      BY <2>3, <2>4
    <3> QED
      BY <3>1, <3>2, <3>3, <3>4
  <2>6. UNCHANGED <<stored, clients, used, refs, lasted, closed, retired, life, dying, loaded,
                    ctodo, cact, cc, cn, hpc, pass, htodo, hk, left, brokens>>
    BY <1>9 DEF GetNext
  <2> QED
    BY <1>1, <2>5, <2>6 DEF TypeOK
<1>10. CASE GetTest(u)
  BY <1>1, <1>10 DEF TypeOK, GetTest
<1>11. CASE GracefullyClose(u)
  BY <1>1, <1>11 DEF TypeOK, GracefullyClose
<1> QED
  BY <1>3, <1>4, <1>5, <1>6, <1>7, <1>8, <1>9, <1>10, <1>11 DEF Looking

(* A look of a user keeps the invariant.                                    *)
LEMMA LookingInv == ASSUME NEW u \in Users, IndInv, Looking(u) PROVE IndInv'
<1>1. UNCHANGED <<clients, life, dying, retired, cleanVars, heartVars>>
  BY DEF Looking, Release, Do, DoEnd, PutRefuse, PutLimit, Get, GetNext, GetTest, GracefullyClose,
         poolVars, clientVars
<1>2. PoolInv' /\ DeadInv' /\ Keeps
  BY <1>1 DEF IndInv, PoolInv, PooledOnce, Pooled, DeadInv, Keeps
<1>3. CleanInv' /\ HeartInv'
  BY <1>1, <1>2, CleanKept, HeartKept DEF IndInv
<1> QED
  BY <1>2, <1>3, LookingType, LookingUser DEF IndInv

(* Dialling and giving up: only the life of the client held changes.        *)
LEMMA DialDropInv ==
  ASSUME NEW u \in Users, IndInv, (\E c \in Clients : Dial(u, c)) \/ Drop(u)
  PROVE  IndInv'
<1> USE KeepAliverAssumption
<1>1. /\ UNCHANGED <<poolVars, used, refs, lasted, dying, closed, retired, cleanVars, heartVars,
                 kp, loaded>>
  BY DEF Dial, Drop
<1>2. /\ pc \in [Users -> UserPC] /\ cl \in [Users -> Clients \cup {None}]
      /\ life \in [Clients -> {"new", "own", "shared"}] /\ UserInv /\ HoldInv
  BY DEF IndInv, TypeOK
<1>3. \A c : Pooled(c)' = Pooled(c)
  BY <1>1 DEF Pooled, poolVars
<1>4. PICK c \in Clients :
        /\ cl' = [cl EXCEPT ![u] = c]
        /\ \/ /\ life[c] = "new" /\ pc[u] = "idle" /\ pc' = [pc EXCEPT ![u] = "hold"]
              /\ life' = [life EXCEPT ![c] = "own"]
           \/ /\ cl[u] = c /\ pc[u] = "hold" /\ pc' = [pc EXCEPT ![u] = "del"]
              /\ life' = [life EXCEPT ![c] = "shared"]
  <2>1. CASE \E c \in Clients : Dial(u, c)
    BY <2>1 DEF Dial, Enter
  <2>2. CASE Drop(u)
    <3>1. cl[u] \in Clients /\ cl' = [cl EXCEPT ![u] = cl[u]]
      BY <1>2, <2>2 DEF Drop, UserInv
    <3> QED
      BY <2>2, <3>1 DEF Drop, Enter
  <2> QED
    BY <2>1, <2>2
<1>5. TypeOK'
  <2>1. /\ pc' \in [Users -> UserPC] /\ cl' \in [Users -> Clients \cup {None}]
        /\ life' \in [Clients -> {"new", "own", "shared"}]
    BY <1>2, <1>4 DEF UserPC
  <2> QED
    BY <1>1, <2>1 DEF IndInv, TypeOK, poolVars, cleanVars, heartVars
<1>6. UserInv'
  BY <1>1, <1>2, <1>3, <1>4 DEF UserInv, HoldInv
<1>7. HoldInv'
  BY <1>1, <1>2, <1>4 DEF UserInv, HoldInv
<1>8. PoolInv' /\ DeadInv' /\ Keeps
  BY <1>1, <1>2, <1>3, <1>4 DEF IndInv, PoolInv, PooledOnce, DeadInv, Keeps, poolVars
<1>9. CleanInv' /\ HeartInv'
  BY <1>1, <1>8, CleanKept, HeartKept DEF IndInv
<1> QED
  BY <1>5, <1>6, <1>7, <1>8, <1>9 DEF IndInv

(* A client that only its dialler knows enters its pool.                    *)
LEMMA PooledBy ==
  ASSUME IndInv, NEW u \in Users, NEW c \in Clients, NEW s \in Seq(Clients),
         cl[u] = c, life[c] = "own", Once(s),
         \A d \in Clients : Has(s, d) => Has(clients[PoolOf[c]], d) \/ d = c,
         clients' = [clients EXCEPT ![PoolOf[c]] = s],
         life' = [life EXCEPT ![c] = "shared"],
         UNCHANGED <<dying, retired>>
  PROVE  /\ PoolInv' /\ DeadInv' /\ Keeps
         /\ \A d \in Clients : Pooled(d)' => Pooled(d) \/ d = c
<1> USE KeepAliverAssumption
<1>1. /\ clients \in [Pools -> Seq(Clients)] /\ life \in [Clients -> {"new", "own", "shared"}]
      /\ PooledOnce /\ (\A d \in Clients : Pooled(d) => life[d] = "shared") /\ DeadInv
  BY DEF IndInv, TypeOK, PoolInv
<1>2. PoolOf[c] \in Pools
  OBVIOUS
<1>3. \A k \in Pools : clients'[k] = IF k = PoolOf[c] THEN s ELSE clients[k]
  BY <1>1, <1>2
<1>4. \A d \in Clients : Pooled(d)' => Pooled(d) \/ d = c
  <2> SUFFICES ASSUME NEW d \in Clients, NEW k \in Pools, Has(clients'[k], d), d # c
               PROVE  Pooled(d)
    BY DEF Pooled
  <2> QED
    BY <1>2, <1>3 DEF Pooled
<1>5. PooledOnce'
  <2> SUFFICES ASSUME NEW k \in Pools
               PROVE  Once(clients'[k]) /\ \A d \in Clients : Has(clients'[k], d) => PoolOf[d] = k
    BY DEF PooledOnce
  <2> QED
    BY <1>1, <1>3 DEF PooledOnce
<1>6. \A d \in Clients : life'[d] = IF d = c THEN "shared" ELSE life[d]
  BY <1>1
<1>7. PoolInv' /\ DeadInv'
  BY <1>1, <1>4, <1>5, <1>6 DEF PoolInv, DeadInv
<1>8. Keeps
  BY <1>4, <1>6 DEF Keeps
<1> QED
  BY <1>4, <1>7, <1>8

(* A client leaves its pool.                                                *)
LEMMA RemovedBy ==
  ASSUME IndInv, NEW c \in Clients,
         clients' = [clients EXCEPT ![PoolOf[c]] = Without(@, c)],
         UNCHANGED <<life, dying, retired>>
  PROVE  /\ PoolInv' /\ DeadInv' /\ Keeps /\ ~Pooled(c)'
         /\ clients' \in [Pools -> Seq(Clients)]
<1> USE KeepAliverAssumption
<1>1. /\ clients \in [Pools -> Seq(Clients)] /\ PooledOnce
      /\ (\A d \in Clients : Pooled(d) => life[d] = "shared") /\ DeadInv
  BY DEF IndInv, TypeOK, PoolInv
<1> DEFINE k0 == PoolOf[c]
           s == Without(clients[k0], c)
<1>2. k0 \in Pools /\ clients[k0] \in Seq(Clients) /\ Once(clients[k0])
  BY <1>1 DEF PooledOnce
<1>3. /\ s \in Seq(Clients) /\ Once(s) /\ ~Has(s, c)
      /\ \A d : Has(s, d) => Has(clients[k0], d)
  BY <1>2, WithoutHas
<1>4. \A k \in Pools : clients'[k] = IF k = k0 THEN s ELSE clients[k]
  BY <1>1, <1>2
<1>5. clients' \in [Pools -> Seq(Clients)]
  <2>1. clients' = [clients EXCEPT ![k0] = s]
    BY <1>1, <1>2
  <2> HIDE DEF s, k0
  <2> QED
    BY <1>1, <1>3, <2>1
<1> HIDE DEF s
<1>6. PooledOnce' /\ ~Pooled(c)'
  <2>1. PooledOnce'
    <3> SUFFICES ASSUME NEW k \in Pools
                 PROVE  Once(clients'[k]) /\ \A d \in Clients : Has(clients'[k], d) => PoolOf[d] = k
      BY DEF PooledOnce
    <3> QED
      BY <1>1, <1>3, <1>4 DEF PooledOnce
  <2>2. ASSUME NEW k \in Pools PROVE ~Has(clients'[k], c)
    BY <1>1, <1>3, <1>4 DEF PooledOnce
  <2> QED
    BY <2>1, <2>2 DEF Pooled
<1>7. \A d \in Clients : Pooled(d)' => Pooled(d)
  <2> SUFFICES ASSUME NEW d \in Clients, NEW k \in Pools, Has(clients'[k], d) PROVE Pooled(d)
    BY DEF Pooled
  <2> QED
    BY <1>2, <1>3, <1>4 DEF Pooled
<1>8. PoolInv' /\ DeadInv' /\ Keeps
  BY <1>1, <1>6, <1>7 DEF PoolInv, DeadInv, Keeps
<1> QED
  BY <1>5, <1>6, <1>8

(* LoadOrStore: the new Pool is kept, or nothing happens yet.               *)
LEMMA PutStoreInv == ASSUME NEW u \in Users, IndInv, PutStore(u) PROVE IndInv'
<1> USE KeepAliverAssumption
<1> DEFINE c == cl[u]
           k == PoolOf[c]
<1>1. /\ pc \in [Users -> UserPC] /\ cl \in [Users -> Clients \cup {None}]
      /\ loaded \in [Users -> BOOLEAN] /\ stored \in [Pools -> BOOLEAN]
      /\ clients \in [Pools -> Seq(Clients)] /\ life \in [Clients -> {"new", "own", "shared"}]
      /\ UserInv /\ HoldInv
  BY DEF IndInv, TypeOK
<1>2. /\ pc[u] = "hold" /\ c \in Clients /\ k \in Pools /\ life[c] = "own"
      /\ pc' = [pc EXCEPT ![u] = "refuse"] /\ loaded' = [loaded EXCEPT ![u] = stored[k]]
      /\ UNCHANGED <<next, used, refs, lasted, closed, retired, dying, cl, kp, cleanVars, heartVars>>
  <2>1. pc[u] = "hold" /\ life[c] = "own" /\ c \in Clients
    BY <1>1 DEF PutStore, UserInv
  <2> QED
    BY <2>1 DEF PutStore, Enter
<1>3. /\ pc' \in [Users -> UserPC] /\ loaded' \in [Users -> BOOLEAN]
  <2>1. stored[k] \in BOOLEAN
    BY <1>1, <1>2, Zenon
  <2>2. loaded' \in [Users -> BOOLEAN]
    BY <1>1, <1>2, <2>1, Zenon
  <2> QED
    BY <1>1, <1>2, <2>2 DEF UserPC
<1> HIDE DEF k
<1>4. CASE stored[k]
  <2>1. UNCHANGED <<stored, clients, life>>
    BY <1>4 DEF PutStore, k
  <2>2. \A d : Pooled(d)' = Pooled(d)
    BY <2>1 DEF Pooled
  <2>3. PoolInv' /\ DeadInv' /\ Keeps
    BY <1>2, <2>1, <2>2 DEF IndInv, PoolInv, PooledOnce, DeadInv, Keeps
  <2>4. UserInv' /\ HoldInv'
    BY <1>1, <1>2, <2>1, <2>2 DEF UserInv, HoldInv
  <2>5. TypeOK'
    BY <1>2, <1>3, <2>1 DEF IndInv, TypeOK, cleanVars, heartVars
  <2> QED
    BY <1>2, <2>3, <2>4, <2>5, CleanKept, HeartKept DEF IndInv
<1>5. CASE ~stored[k]
  <2>1. /\ stored' = [stored EXCEPT ![k] = TRUE] /\ clients' = [clients EXCEPT ![k] = <<c>>]
        /\ life' = [life EXCEPT ![c] = "shared"]
    BY <1>5 DEF PutStore, k
  <2>2. Once(<<c>>) /\ <<c>> \in Seq(Clients) /\ \A d : Has(<<c>>, d) <=> d = c
    BY <1>2, SmallHas
  <2>3. /\ PoolInv' /\ DeadInv' /\ Keeps
        /\ \A d \in Clients : Pooled(d)' => Pooled(d) \/ d = c
    BY <1>2, <2>1, <2>2, PooledBy DEF k
  <2>4. TypeOK'
    <3>1. /\ stored' \in [Pools -> BOOLEAN] /\ clients' \in [Pools -> Seq(Clients)]
          /\ life' \in [Clients -> {"new", "own", "shared"}]
      BY <1>1, <1>2, <2>1, <2>2
    <3> QED
      BY <1>2, <1>3, <3>1 DEF IndInv, TypeOK, cleanVars, heartVars
  <2>5. \A v \in Users : v # u => cl[v] # c
    BY <1>1, <1>2 DEF HoldInv
  <2>6. loaded'[u] = FALSE /\ \A v \in Users \ {u} : loaded'[v] = loaded[v] /\ pc'[v] = pc[v]
    BY <1>1, <1>2, <1>5, Zenon
  <2>7. \A d \in Clients : life'[d] = IF d = c THEN "shared" ELSE life[d]
    BY <1>1, <2>1
  <2>8. \A v \in Users : pc[v] \in {"grace", "store", "close"} => ~Pooled(cl[v])'
    <3> SUFFICES ASSUME NEW v \in Users, pc[v] \in {"grace", "store", "close"}, Pooled(cl[v])'
                 PROVE  FALSE
      OBVIOUS
    <3>1. cl[v] \in Clients /\ v # u /\ ~Pooled(cl[v]) /\ cl' = cl
      <4>1. cl[v] # None /\ ~Pooled(cl[v])
        BY <1>1 DEF UserInv
      <4> QED
        BY <1>1, <1>2, <4>1
    <3>2. Pooled(cl[v]) \/ cl[v] = c
      BY <2>3, <3>1 DEF Pooled
    <3> QED
      BY <2>5, <3>1, <3>2
  <2>9. UserInv' /\ HoldInv'
    BY <1>1, <1>2, <2>5, <2>6, <2>7, <2>8 DEF UserInv, HoldInv
  <2> QED
    BY <1>2, <2>3, <2>4, <2>9, CleanKept, HeartKept DEF IndInv
<1> QED
  BY <1>4, <1>5

(* Push: the client was nowhere before, so it is pooled once.               *)
LEMMA PutPushInv == ASSUME NEW u \in Users, IndInv, PutPush(u) PROVE IndInv'
<1> USE KeepAliverAssumption
<1> DEFINE c == cl[u]
           k == PoolOf[c]
<1>1. /\ pc \in [Users -> UserPC] /\ cl \in [Users -> Clients \cup {None}]
      /\ clients \in [Pools -> Seq(Clients)] /\ life \in [Clients -> {"new", "own", "shared"}]
      /\ UserInv /\ HoldInv /\ PoolInv
  BY DEF IndInv, TypeOK
<1>2. /\ pc[u] = "push" /\ c \in Clients /\ k \in Pools /\ life[c] = "own"
      /\ pc' = [pc EXCEPT ![u] = "hold"] /\ life' = [life EXCEPT ![c] = "shared"]
      /\ clients' = [clients EXCEPT ![k] = Append(clients[k], c)]
      /\ UNCHANGED <<stored, next, used, refs, lasted, closed, retired, dying, cl, kp, loaded,
                     cleanVars, heartVars>>
  BY <1>1 DEF PutPush, Enter, UserInv
<1>3. ~Has(clients[k], c) /\ Once(clients[k]) /\ clients[k] \in Seq(Clients)
  BY <1>1, <1>2 DEF PoolInv, PooledOnce, Pooled
<1>4. /\ Append(clients[k], c) \in Seq(Clients) /\ Once(Append(clients[k], c))
      /\ \A d : Has(Append(clients[k], c), d) <=> Has(clients[k], d) \/ d = c
  BY <1>2, <1>3, AppendHas
<1> HIDE DEF k
<1>5. /\ PoolInv' /\ DeadInv' /\ Keeps
      /\ \A d \in Clients : Pooled(d)' => Pooled(d) \/ d = c
  BY <1>2, <1>4, PooledBy, ZenonT(60) DEF k
<1>6. TypeOK'
  <2>1. /\ clients' \in [Pools -> Seq(Clients)] /\ pc' \in [Users -> UserPC]
        /\ life' \in [Clients -> {"new", "own", "shared"}]
    BY <1>1, <1>2, <1>4 DEF UserPC
  <2> QED
    BY <1>2, <2>1 DEF IndInv, TypeOK, cleanVars, heartVars
<1>7. \A v \in Users : v # u => cl[v] # c
  BY <1>1, <1>2 DEF HoldInv
<1>8. \A d \in Clients : life'[d] = IF d = c THEN "shared" ELSE life[d]
  BY <1>1, <1>2
<1>9. \A v \in Users : pc[v] \in {"grace", "store", "close"} => ~Pooled(cl[v])'
  <2> SUFFICES ASSUME NEW v \in Users, pc[v] \in {"grace", "store", "close"}, Pooled(cl[v])'
               PROVE  FALSE
    OBVIOUS
  <2>1. cl[v] \in Clients /\ v # u /\ ~Pooled(cl[v]) /\ cl' = cl
    <3>1. cl[v] # None /\ ~Pooled(cl[v])
      BY <1>1 DEF UserInv
    <3> QED
      BY <1>1, <1>2, <3>1
  <2>2. Pooled(cl[v]) \/ cl[v] = c
    BY <1>5, <2>1 DEF Pooled
  <2> QED
    BY <1>7, <2>1, <2>2
<1>10. UserInv' /\ HoldInv'
  BY <1>1, <1>2, <1>7, <1>8, <1>9 DEF UserInv, HoldInv
<1> QED
  BY <1>2, <1>5, <1>6, <1>10, CleanKept, HeartKept DEF IndInv

(* Del: the client is out of its pool, and shared, so it stays out.         *)
LEMMA DelInv == ASSUME NEW u \in Users, IndInv, Del(u) PROVE IndInv'
<1> USE KeepAliverAssumption
<1>1. /\ pc \in [Users -> UserPC] /\ cl \in [Users -> Clients \cup {None}] /\ UserInv /\ HoldInv
  BY DEF IndInv, TypeOK
<1>2. pc[u] = "del" /\ cl[u] \in Clients /\ life[cl[u]] = "shared"
  BY <1>1 DEF Del, UserInv
<1>3. /\ clients' = [clients EXCEPT ![PoolOf[cl[u]]] = Without(@, cl[u])]
      /\ pc' = [pc EXCEPT ![u] = "grace"]
      /\ UNCHANGED <<stored, next, clientVars, dying, cl, kp, loaded, cleanVars, heartVars>>
  BY DEF Del, Enter
<1>4. UNCHANGED <<life, dying, retired>>
  BY <1>3 DEF clientVars
<1>5. /\ PoolInv' /\ DeadInv' /\ Keeps
      /\ clients' \in [Pools -> Seq(Clients)]
  BY <1>2, <1>3, <1>4, RemovedBy
<1>6. \A k \in Pools : ~Has(clients'[k], cl[u])
  <2>1. ASSUME NEW c \in Clients, c = cl[u] PROVE ~Pooled(c)'
    BY <1>2, <1>3, <1>4, <2>1, RemovedBy
  <2> QED
    BY <1>2, <2>1 DEF Pooled
<1>7. TypeOK'
  <2>1. pc' \in [Users -> UserPC]
    BY <1>1, <1>3 DEF UserPC
  <2> QED
    BY <1>3, <1>5, <2>1 DEF IndInv, TypeOK, clientVars, cleanVars, heartVars
<1>8. ASSUME NEW v \in Users, pc'[v] \in {"grace", "store", "close"} PROVE ~Pooled(cl[v])'
  <2>1. CASE v = u
    BY <1>3, <1>6, <2>1 DEF Pooled
  <2>2. CASE v # u
    <3>1. pc[v] \in {"grace", "store", "close"}
      BY <1>1, <1>3, <1>8, <2>2
    <3>2. cl[v] \in Clients /\ life[cl[v]] = "shared" /\ ~Pooled(cl[v])
      BY <1>1, <3>1 DEF UserInv
    <3> QED
      BY <1>3, <1>5, <3>2 DEF Keeps, Pooled
  <2> QED
    BY <2>1, <2>2
<1>9. UserInv' /\ HoldInv'
  BY <1>1, <1>2, <1>3, <1>4, <1>8 DEF UserInv, HoldInv
<1> QED
  BY <1>3, <1>5, <1>7, <1>9, CleanKept, HeartKept DEF IndInv

(* GracefullyClose: what enters dying or is closed is out of its pool.      *)
LEMMA GraceInv == ASSUME NEW u \in Users, IndInv, GraceStore(u) \/ GraceClose(u) PROVE IndInv'
<1> USE KeepAliverAssumption
<1>1. /\ pc \in [Users -> UserPC] /\ cl \in [Users -> Clients \cup {None}]
      /\ kp \in [Users -> Pools \cup {None}] /\ UserInv /\ HoldInv
      /\ dying \in [Clients -> 0..CleanupMaxChecks] /\ closed \in [Clients -> BOOLEAN]
      /\ retired \subseteq Clients
  BY DEF IndInv, TypeOK
<1>2. cl[u] \in Clients /\ life[cl[u]] = "shared" /\ ~Pooled(cl[u])
  BY <1>1 DEF GraceStore, GraceClose, UserInv
<1>3. /\ cl' = [cl EXCEPT ![u] = None]
      /\ pc' = [pc EXCEPT ![u] = IF kp[u] # None THEN "get" ELSE "idle"]
      /\ UNCHANGED <<poolVars, used, refs, lasted, life, kp, loaded, cleanVars, heartVars>>
  BY DEF GraceStore, GraceClose, Retired, Enter, clientVars
<1>4. /\ dying' = dying \/ dying' = [dying EXCEPT ![cl[u]] = 1]
      /\ closed' = closed \/ closed' = [closed EXCEPT ![cl[u]] = TRUE]
      /\ retired' = retired \/ retired' = retired \cup {cl[u]}
  BY DEF GraceStore, GraceClose, Closes, clientVars
<1>5. \A c : Pooled(c)' = Pooled(c)
  BY <1>3 DEF Pooled, poolVars
<1>6. TypeOK'
  <2>1. dying' \in [Clients -> 0..CleanupMaxChecks]
    BY <1>1, <1>2, <1>4
  <2>2. closed' \in [Clients -> BOOLEAN] /\ retired' \subseteq Clients
    <3>1. closed' \in [Clients -> BOOLEAN]
      BY <1>1, <1>4, Zenon
    <3> QED
      BY <1>1, <1>2, <1>4, <3>1
  <2>3. pc' \in [Users -> UserPC] /\ cl' \in [Users -> Clients \cup {None}]
    BY <1>1, <1>3 DEF UserPC
  <2> QED
    BY <1>3, <2>1, <2>2, <2>3 DEF IndInv, TypeOK, poolVars, cleanVars, heartVars
<1>7. DeadInv'
  <2> SUFFICES ASSUME NEW c \in Clients, dying'[c] # 0 \/ c \in retired'
               PROVE  life'[c] = "shared" /\ ~Pooled(c)'
    BY DEF DeadInv
  <2>1. CASE c = cl[u]
    BY <1>2, <1>3, <1>5, <2>1
  <2>2. CASE c # cl[u]
    <3>1. dying[c] # 0 \/ c \in retired
      BY <1>1, <1>4, <2>2
    <3> QED
      BY <1>3, <1>5, <3>1 DEF IndInv, DeadInv
  <2> QED
    BY <2>1, <2>2
<1>8. PoolInv' /\ Keeps
  <2>1. PoolInv'
    BY <1>3, <1>5 DEF IndInv, PoolInv, PooledOnce, poolVars
  <2>2. \A c \in Clients : dying[c] # 0 => dying'[c] # 0
    BY <1>1, <1>2, <1>4
  <2> QED
    BY <1>3, <1>5, <2>1, <2>2 DEF Keeps
<1>9. UserInv' /\ HoldInv'
  BY <1>1, <1>3, <1>5 DEF UserInv, HoldInv
<1> QED
  BY <1>3, <1>6, <1>7, <1>8, <1>9, CleanKept, HeartKept DEF IndInv

-----------------------------------------------------------------------------
(* doCleanup: it counts and closes what is dying already.                   *)
LEMMA CleanupInv == ASSUME IndInv, Cleanup PROVE IndInv'
<1> USE KeepAliverAssumption
<1>1. /\ dying \in [Clients -> 0..CleanupMaxChecks] /\ closed \in [Clients -> BOOLEAN]
      /\ ctodo \subseteq Clients /\ cn \in 0..CleanupMaxChecks /\ cc \in Clients \cup {None}
      /\ retired \subseteq Clients /\ CleanInv
  BY DEF IndInv, TypeOK
<1>2. UNCHANGED <<poolVars, used, refs, lasted, life, userVars, heartVars>>
  BY DEF Cleanup, CleanWake, CleanStop, CleanVisit, CleanKeep, CleanClose, CleanRound, Closes,
         clientVars
<1>3. \A c : Pooled(c)' = Pooled(c)
  BY <1>2 DEF Pooled, poolVars
<1>4. /\ dying' \in [Clients -> 0..CleanupMaxChecks] /\ closed' \in [Clients -> BOOLEAN]
      /\ ctodo' \subseteq Clients /\ cn' \in 0..CleanupMaxChecks /\ cc' \in Clients \cup {None}
      /\ cact' \in {"sleep", "visit", "keep", "close", "stopped"}
      /\ \A c \in Clients : /\ dying[c] # 0 <=> dying'[c] # 0
                            /\ c \in retired' => c \in retired \/ dying[c] # 0
      /\ retired' \subseteq Clients
      /\ CleanInv'
  <2>1. CASE CleanWake \/ CleanStop \/ CleanRound
    BY <1>1, <2>1 DEF CleanWake, CleanStop, CleanRound, CleanInv, clientVars
  <2>2. CASE \E c \in Clients : CleanVisit(c)
    BY <1>1, <2>2 DEF CleanVisit, CleanInv, clientVars
  <2>3. CASE CleanKeep
    <3>1. cc \in Clients /\ dying[cc] # 0 /\ cn + 1 \in 1..CleanupMaxChecks
      BY <1>1, <2>3 DEF CleanKeep, CleanInv
    <3>2. /\ dying' = [dying EXCEPT ![cc] = cn + 1] /\ cact' = "visit" /\ cc' = None /\ cn' = 0
          /\ UNCHANGED <<closed, retired, ctodo>>
      BY <2>3 DEF CleanKeep, clientVars
    <3> QED
      BY <1>1, <3>1, <3>2 DEF CleanInv
  <2>4. CASE CleanClose
    <3>1. cc \in Clients /\ dying[cc] # 0
      BY <1>1, <2>4 DEF CleanClose, CleanInv
    <3>2. /\ closed' = [closed EXCEPT ![cc] = TRUE] /\ retired' = retired \cup {cc}
          /\ cact' = "visit" /\ cc' = None /\ cn' = 0 /\ UNCHANGED <<dying, ctodo>>
      BY <2>4 DEF CleanClose, Closes
    <3>3. closed' \in [Clients -> BOOLEAN]
      BY <1>1, <3>2, Zenon
    <3>4. /\ \A c \in Clients : c \in retired' => c \in retired \/ dying[c] # 0
          /\ retired' \subseteq Clients
      BY <1>1, <3>1, <3>2
    <3> QED
      BY <1>1, <3>1, <3>2, <3>3, <3>4 DEF CleanInv
  <2> QED
    BY <2>1, <2>2, <2>3, <2>4 DEF Cleanup
<1>5. TypeOK'
  BY <1>2, <1>4 DEF IndInv, TypeOK, poolVars, userVars, heartVars
<1>6. PoolInv' /\ DeadInv' /\ Keeps
  <2>1. PoolInv'
    BY <1>2, <1>3 DEF IndInv, PoolInv, PooledOnce, poolVars
  <2>2. \A c \in Clients : dying[c] # 0 <=> dying'[c] # 0
    BY <1>4
  <2>3. \A c \in Clients : c \in retired' => c \in retired \/ dying[c] # 0
    BY <1>4
  <2>4. DeadInv'
    BY <1>2, <1>3, <2>2, <2>3 DEF IndInv, DeadInv
  <2>5. Keeps
    BY <1>2, <1>3, <2>2 DEF Keeps
  <2> QED
    BY <2>1, <2>4, <2>5
<1>7. UserInv' /\ HoldInv' /\ HeartInv'
  <2>1. UNCHANGED <<userVars, life>>
    BY <1>2
  <2>2. UserInv' /\ HoldInv'
    BY <1>6, <2>1, UsersKept DEF IndInv
  <2> QED
    BY <1>2, <1>6, <2>2, HeartKept DEF IndInv
<1> QED
  BY <1>4, <1>5, <1>6, <1>7 DEF IndInv

-----------------------------------------------------------------------------
(* doHeartbeat: what it copied stays shared, so what it deletes stays out.  *)

(* The steps that leave the pools and the clients' fates alone.             *)
HeartLooks ==
  \/ HeartTick \/ HeartRange \/ (\E k \in Pools : HeartCopy(k)) \/ HeartSkip \/ HeartProbe
  \/ (\E failed \in BOOLEAN : HeartAnswer(failed)) \/ HeartChecked \/ HeartStop

(* What clientChecker copies, probes and keeps as broken was pooled.        *)
LEMMA HeartLooksHeart == ASSUME IndInv, HeartLooks PROVE HeartInv'
<1> USE KeepAliverAssumption
<1>1. /\ left \in Seq(Clients) /\ brokens \in Seq(Clients) /\ hk \in Pools \cup {None}
      /\ clients \in [Pools -> Seq(Clients)] /\ HeartInv /\ PoolInv /\ htodo \subseteq Pools
  BY DEF IndInv, TypeOK
<1>2. UNCHANGED <<clients, life>>
  BY DEF HeartLooks, HeartTick, HeartRange, HeartCopy, HeartSkip, HeartProbe, HeartAnswer,
         HeartChecked, HeartStop, poolVars, clientVars
<1>3. \A c : Pooled(c)' = Pooled(c)
  BY <1>2 DEF Pooled
<1>4. CASE HeartTick \/ HeartRange \/ HeartProbe \/ HeartStop
  <2>1. /\ UNCHANGED <<left, brokens, hk>>
        /\ \/ hpc \in {"tick", "range"} /\ hpc' \in {"tick", "range", "stopped"}
           \/ hpc = "check" /\ hpc' \in {"probe", "refused"} /\ left # <<>>
    <3>1. CASE HeartTick
      BY <3>1 DEF HeartTick
    <3>2. CASE HeartRange
      BY <3>2 DEF HeartRange
    <3>3. CASE HeartProbe
      BY <3>3 DEF HeartProbe
    <3>4. CASE HeartStop
      BY <3>4 DEF HeartStop
    <3> QED
      BY <1>4, <3>1, <3>2, <3>3, <3>4
  <2>2. \A c : Has(left, c)' = Has(left, c) /\ Has(brokens, c)' = Has(brokens, c)
    BY <2>1 DEF Has
  <2> QED
    BY <1>1, <1>2, <1>3, <2>1, <2>2 DEF HeartInv
<1>5. CASE \E k \in Pools : HeartCopy(k)
  <2>1. PICK k \in Pools : HeartCopy(k)
    BY <1>5
  <2>2. hpc = "range" /\ left' = clients[k] /\ hk' = k /\ brokens' = brokens /\ hpc' = "check"
    BY <2>1 DEF HeartCopy
  <2>3. brokens = <<>> /\ \A c : ~Has(brokens', c)
    BY <1>1, <2>2 DEF HeartInv, Has
  <2>4. \A c \in Clients : Has(left', c) => life[c] = "shared" /\ PoolOf[c] = k
    BY <1>1, <2>2 DEF PoolInv, PooledOnce, Pooled
  <2> QED
    BY <1>2, <2>2, <2>3, <2>4 DEF HeartInv
<1>6. CASE HeartSkip
  <2>1. hpc = "check" /\ left # <<>> /\ left' = Tail(left) /\ UNCHANGED <<hpc, hk, brokens>>
    BY <1>6 DEF HeartSkip
  <2>2. \A c : Has(left, c) <=> c = Head(left) \/ Has(left', c)
    BY <1>1, <2>1, TailHas
  <2> QED
    BY <1>1, <1>2, <2>1, <2>2 DEF HeartInv
<1>7. CASE \E failed \in BOOLEAN : HeartAnswer(failed)
  <2>1. /\ hpc \in {"probe", "refused"} /\ left' = Tail(left) /\ hpc' = "check" /\ UNCHANGED hk
        /\ brokens' = brokens \/ brokens' = Append(brokens, Head(left))
    BY <1>7 DEF HeartAnswer
  <2>2. left # <<>>
    BY <1>1, <2>1 DEF HeartInv
  <2>3. /\ Head(left) \in Clients /\ Has(left, Head(left))
        /\ \A c : Has(left, c) <=> c = Head(left) \/ Has(left', c)
    BY <1>1, <2>1, <2>2, TailHas
  <2>4. \A c : Has(brokens', c) => Has(brokens, c) \/ c = Head(left)
    <3>1. CASE brokens' = brokens
      BY <3>1
    <3>2. CASE brokens' = Append(brokens, Head(left))
      <4>1. \A c : Has(Append(brokens, Head(left)), c) <=> Has(brokens, c) \/ c = Head(left)
        BY <1>1, <2>3, AppendHas
      <4> QED
        BY <3>2, <4>1
    <3> QED
      BY <2>1, <3>1, <3>2
  <2> QED
    BY <1>1, <1>2, <2>1, <2>3, <2>4 DEF HeartInv
<1>8. CASE HeartChecked
  <2>1. /\ hpc = "check" /\ left = <<>> /\ left' = brokens /\ UNCHANGED <<hk, brokens>>
        /\ hpc' = IF brokens = <<>> THEN "range" ELSE "delete"
    BY <1>8 DEF HeartChecked
  <2>2. \A c : Has(left', c) = Has(brokens, c) /\ Has(brokens', c) = Has(brokens, c)
    BY <2>1 DEF Has
  <2> QED
    BY <1>1, <1>2, <2>1, <2>2 DEF HeartInv
<1> QED
  BY <1>4, <1>5, <1>6, <1>7, <1>8 DEF HeartLooks

(* The probe's counters and clientChecker's slices keep their types.        *)
LEMMA HeartLooksType == ASSUME IndInv, HeartLooks PROVE TypeOK'
<1> USE KeepAliverAssumption
<1>1. /\ left \in Seq(Clients) /\ brokens \in Seq(Clients) /\ hk \in Pools \cup {None}
      /\ clients \in [Pools -> Seq(Clients)] /\ htodo \subseteq Pools /\ HeartInv
      /\ used \in [Clients -> 0..MaClientConnUsed] /\ refs \in [Clients -> Int]
      /\ lasted \in [Clients -> {"recent", "old", "due"}] /\ pass \in 1..2
      /\ hpc \in {"tick", "range", "check", "probe", "refused", "delete", "close", "stopped"}
  BY DEF IndInv, TypeOK
<1>2. UNCHANGED <<poolVars, closed, retired, life, dying, userVars, cleanVars>>
  BY DEF HeartLooks, HeartTick, HeartRange, HeartCopy, HeartSkip, HeartProbe, HeartAnswer,
         HeartChecked, HeartStop, clientVars
<1>3. /\ left' \in Seq(Clients) /\ brokens' \in Seq(Clients) /\ hk' \in Pools \cup {None}
      /\ htodo' \subseteq Pools /\ pass' \in 1..2
      /\ hpc' \in {"tick", "range", "check", "probe", "refused", "delete", "close", "stopped"}
  <2>1. CASE HeartTick \/ HeartRange \/ HeartStop
    BY <1>1, <2>1 DEF HeartTick, HeartRange, HeartStop, RawStored
  <2>2. CASE \E k \in Pools : HeartCopy(k)
    BY <1>1, <2>2 DEF HeartCopy
  <2>3. CASE HeartSkip \/ HeartProbe \/ HeartChecked
    <3>1. /\ left' \in {left, Tail(left), brokens} /\ UNCHANGED <<brokens, hk, htodo, pass>>
          /\ hpc' \in {"check", "probe", "refused", "delete", "range"}
      BY <1>1, <2>3 DEF HeartSkip, HeartProbe, HeartChecked
    <3>2. left' \in Seq(Clients)
      BY <1>1, <2>3, TailHas, ZenonT(60) DEF HeartSkip, HeartProbe, HeartChecked
    <3> QED
      BY <1>1, <3>1, <3>2
  <2>4. CASE \E failed \in BOOLEAN : HeartAnswer(failed)
    <3>1. /\ hpc \in {"probe", "refused"} /\ left' = Tail(left) /\ hpc' = "check"
          /\ UNCHANGED <<hk, htodo, pass>>
          /\ brokens' = brokens \/ brokens' = Append(brokens, Head(left))
      BY <2>4 DEF HeartAnswer
    <3>2. left # <<>>
      BY <1>1, <3>1 DEF HeartInv
    <3>3. Head(left) \in Clients /\ Tail(left) \in Seq(Clients)
      BY <1>1, <3>2, TailHas
    <3>4. Append(brokens, Head(left)) \in Seq(Clients)
      BY <1>1, <3>3
    <3> QED
      BY <1>1, <3>1, <3>3, <3>4
  <2> QED
    BY <2>1, <2>2, <2>3, <2>4 DEF HeartLooks
<1>4. /\ used' \in [Clients -> 0..MaClientConnUsed] /\ refs' \in [Clients -> Int]
      /\ lasted' \in [Clients -> {"recent", "old", "due"}]
  <2>1. CASE HeartTick \/ HeartRange
    BY <1>1, <2>1 DEF HeartTick, HeartRange
  <2>2. CASE (\E k \in Pools : HeartCopy(k)) \/ HeartSkip \/ HeartChecked \/ HeartStop
    BY <1>1, <2>2 DEF HeartCopy, HeartSkip, HeartChecked, HeartStop, clientVars
  <2>3. CASE HeartProbe
    <3>1. left # <<>> /\ used' = AddUsed(Head(left)) /\ lasted' = lasted
          /\ refs' = [refs EXCEPT ![Head(left)] = refs[Head(left)] + 1]
      BY <2>3 DEF HeartProbe
    <3>2. Head(left) \in Clients
      BY <1>1, <3>1, TailHas
    <3> DEFINE c == Head(left)
    <3> HIDE DEF c
    <3>3. c \in Clients /\ used' = AddUsed(c) /\ refs' = [refs EXCEPT ![c] = refs[c] + 1]
      BY <3>1, <3>2 DEF c
    <3>4. used' \in [Clients -> 0..MaClientConnUsed]
      <4>1. used[c] \in 0..MaClientConnUsed /\ used \in [Clients -> 0..MaClientConnUsed]
        BY <1>1, <3>3
      <4> QED
        BY <3>3, <4>1 DEF AddUsed
    <3>5. refs' \in [Clients -> Int]
      <4>1. refs[c] + 1 \in Int /\ refs \in [Clients -> Int]
        BY <1>1, <3>3
      <4> QED
        BY <3>3, <4>1
    <3> QED
      BY <1>1, <3>1, <3>4, <3>5
  <2>4. CASE \E failed \in BOOLEAN : HeartAnswer(failed)
    <3> DEFINE c == Head(left)
    <3>1. /\ refs' = [refs EXCEPT ![c] = refs[c] - 1]
          /\ lasted' = [lasted EXCEPT ![c] = "recent"] /\ used' = used
      BY <2>4 DEF HeartAnswer
    <3>2. hpc \in {"probe", "refused"} /\ left # <<>>
      BY <1>1, <2>4 DEF HeartAnswer, HeartInv
    <3>3. c \in Clients
      BY <1>1, <3>2, TailHas
    <3> HIDE DEF c
    <3>4. refs[c] - 1 \in Int /\ refs \in [Clients -> Int]
      BY <1>1, <3>3
    <3>5. refs' \in [Clients -> Int]
      BY <3>1, <3>4
    <3>6. lasted' \in [Clients -> {"recent", "old", "due"}]
      BY <1>1, <3>1
    <3> QED
      BY <1>1, <3>1, <3>5, <3>6
  <2> QED
    BY <2>1, <2>2, <2>3, <2>4 DEF HeartLooks
<1> QED
  BY <1>2, <1>3, <1>4 DEF IndInv, TypeOK, poolVars, userVars, cleanVars

(* A look of doHeartbeat keeps the invariant.                               *)
LEMMA HeartLooksInv == ASSUME IndInv, HeartLooks PROVE IndInv'
<1>1. UNCHANGED <<clients, retired, life, dying, userVars, cleanVars>>
  BY DEF HeartLooks, HeartTick, HeartRange, HeartCopy, HeartSkip, HeartProbe, HeartAnswer,
         HeartChecked, HeartStop, poolVars, clientVars
<1>2. PoolInv' /\ DeadInv' /\ Keeps
  BY <1>1 DEF IndInv, PoolInv, PooledOnce, Pooled, DeadInv, Keeps
<1>3. UNCHANGED <<userVars, life>>
  BY <1>1
<1>4. UserInv' /\ HoldInv' /\ CleanInv'
  BY <1>1, <1>2, <1>3, UsersKept, CleanKept DEF IndInv
<1> QED
  BY <1>2, <1>4, HeartLooksType, HeartLooksHeart DEF IndInv

(* DeleteClients: one broken client after the other leaves the pool.        *)
LEMMA HeartDeleteInv == ASSUME IndInv, HeartDelete PROVE IndInv'
<1> USE KeepAliverAssumption
<1> DEFINE x == Head(left)
<1>1. /\ left \in Seq(Clients) /\ HeartInv
  BY DEF IndInv, TypeOK
<1>2. /\ hpc = "delete" /\ left # <<>> /\ left' = Tail(left)
      /\ clients' = [clients EXCEPT ![hk] = Without(@, x)]
      /\ hpc' = IF Tail(left) = <<>> THEN "close" ELSE "delete"
      /\ UNCHANGED <<stored, next, clientVars, dying, userVars, cleanVars, pass, htodo, hk, brokens>>
  BY DEF HeartDelete
<1>3. /\ x \in Clients /\ left' \in Seq(Clients) /\ Has(left, x)
      /\ \A c : Has(left, c) <=> c = x \/ Has(left', c)
  BY <1>1, <1>2, TailHas
<1> HIDE DEF x
<1>4. PoolOf[x] = hk /\ hk \in Pools
  BY <1>1, <1>2, <1>3 DEF HeartInv
<1>5. UNCHANGED <<life, dying, retired>>
  BY <1>2 DEF clientVars
<1>6. /\ PoolInv' /\ DeadInv' /\ Keeps
      /\ clients' \in [Pools -> Seq(Clients)]
      /\ \A k \in Pools : ~Has(clients'[k], x)
  <2>1. \A c \in Clients : c = x => PoolInv' /\ DeadInv' /\ Keeps /\ ~Pooled(c)'
                                    /\ clients' \in [Pools -> Seq(Clients)]
    <3> SUFFICES ASSUME NEW c \in Clients, c = x
                 PROVE  PoolInv' /\ DeadInv' /\ Keeps /\ ~Pooled(c)'
                        /\ clients' \in [Pools -> Seq(Clients)]
      OBVIOUS
    <3>1. clients' = [clients EXCEPT ![PoolOf[c]] = Without(@, c)]
      BY <1>2, <1>4
    <3> QED
      BY <1>5, <3>1, RemovedBy
  <2> QED
    BY <1>3, <2>1 DEF Pooled
<1>7. TypeOK'
  BY <1>2, <1>3, <1>6 DEF IndInv, TypeOK, clientVars, userVars, cleanVars
<1>8. HeartInv'
  <2>1. \A c : Has(brokens, c)' = Has(brokens, c)
    BY <1>2 DEF Has
  <2>2. \A c \in Clients : Has(brokens', c) => Has(left', c) \/ ~Pooled(c)'
    <3> SUFFICES ASSUME NEW c \in Clients, Has(brokens', c), ~Has(left', c), Pooled(c)'
                 PROVE  FALSE
      OBVIOUS
    <3>1. CASE c = x
      BY <1>6, <3>1 DEF Pooled
    <3>2. CASE c # x
      <4>1. ~Has(left, c) /\ Has(brokens, c)
        BY <1>3, <2>1, <3>2
      <4>2. ~Pooled(c) /\ life[c] = "shared"
        BY <1>1, <1>2, <4>1 DEF HeartInv
      <4> QED
        BY <1>6, <4>2 DEF Keeps
    <3> QED
      BY <3>1, <3>2
  <2> QED
    BY <1>1, <1>2, <1>3, <1>4, <1>5, <2>1, <2>2 DEF HeartInv
<1>9. UNCHANGED <<userVars, life>>
  BY <1>2, <1>5
<1>10. UserInv' /\ HoldInv' /\ CleanInv'
  BY <1>2, <1>6, <1>9, UsersKept, CleanKept DEF IndInv
<1> QED
  BY <1>6, <1>7, <1>8, <1>10 DEF IndInv

(* The broken clients that are closed left the pool before.                 *)
LEMMA HeartCloseInv == ASSUME IndInv, HeartClose PROVE IndInv'
<1> USE KeepAliverAssumption
<1> DEFINE x == Head(brokens)
<1>1. /\ left \in Seq(Clients) /\ brokens \in Seq(Clients) /\ HeartInv
      /\ closed \in [Clients -> BOOLEAN] /\ retired \subseteq Clients
  BY DEF IndInv, TypeOK
<1>2. /\ hpc = "close" /\ brokens # <<>> /\ brokens' = Tail(brokens)
      /\ closed' = [closed EXCEPT ![x] = TRUE] /\ retired' = retired \cup {x}
      /\ hpc' = IF Tail(brokens) = <<>> THEN "range" ELSE "close"
      /\ UNCHANGED <<poolVars, used, refs, lasted, life, dying, userVars, cleanVars,
                     pass, htodo, hk, left>>
  BY DEF HeartClose, Closes
<1>3. /\ x \in Clients /\ brokens' \in Seq(Clients) /\ Has(brokens, x)
      /\ \A c : Has(brokens, c) <=> c = x \/ Has(brokens', c)
  BY <1>1, <1>2, TailHas
<1> HIDE DEF x
<1>4. left = <<>> /\ \A c : ~Has(left, c) /\ ~Has(left', c)
  BY <1>1, <1>2 DEF HeartInv, Has
<1>5. \A c : Pooled(c)' = Pooled(c)
  BY <1>2 DEF Pooled, poolVars
<1>6. life[x] = "shared" /\ ~Pooled(x)
  BY <1>1, <1>2, <1>3, <1>4 DEF HeartInv
<1>7. TypeOK'
  <2>1. closed' \in [Clients -> BOOLEAN]
    BY <1>1, <1>2, Zenon
  <2>2. retired' \subseteq Clients
    BY <1>1, <1>2, <1>3
  <2> QED
    BY <1>2, <1>3, <2>1, <2>2 DEF IndInv, TypeOK, poolVars, userVars, cleanVars
<1>8. PoolInv' /\ DeadInv' /\ Keeps
  <2>1. PoolInv'
    BY <1>2, <1>5 DEF IndInv, PoolInv, PooledOnce, poolVars
  <2>2. \A c \in Clients : c \in retired' => c \in retired \/ c = x
    BY <1>1, <1>2
  <2>3. DeadInv'
    BY <1>2, <1>3, <1>5, <1>6, <2>2 DEF IndInv, DeadInv
  <2>4. Keeps
    BY <1>2, <1>5 DEF Keeps
  <2> QED
    BY <2>1, <2>3, <2>4
<1>9. HeartInv'
  BY <1>1, <1>2, <1>3, <1>4, <1>5 DEF HeartInv
<1>10. UNCHANGED <<userVars, life>>
  BY <1>2
<1>11. UserInv' /\ HoldInv' /\ CleanInv'
  BY <1>2, <1>8, <1>10, UsersKept, CleanKept DEF IndInv
<1> QED
  BY <1>7, <1>8, <1>9, <1>11 DEF IndInv

-----------------------------------------------------------------------------
(* A client that closes itself, or is closed by the application, stays      *)
(* where it is: nothing but Closed() changes.                               *)
LEMMA ClientClosesInv == ASSUME NEW c \in Clients, IndInv, ClientCloses(c) PROVE IndInv'
<1>1. /\ closed' = [closed EXCEPT ![c] = TRUE]
      /\ UNCHANGED <<poolVars, used, refs, lasted, retired, life, dying, userVars,
                     cleanVars, heartVars>>
  BY DEF ClientCloses
<1>2. TypeOK'
  <2>1. closed \in [Clients -> BOOLEAN]
    BY DEF IndInv, TypeOK
  <2>2. closed' \in [Clients -> BOOLEAN]
    BY <1>1, <2>1, Zenon
  <2> QED
    BY <1>1, <2>2 DEF IndInv, TypeOK, poolVars, userVars, cleanVars, heartVars
<1>3. PoolInv' /\ DeadInv' /\ Keeps
  <2>1. UNCHANGED <<clients, life, dying, retired>>
    BY <1>1 DEF poolVars
  <2> QED
    BY <2>1 DEF IndInv, PoolInv, PooledOnce, Pooled, DeadInv, Keeps
<1>4. UserInv' /\ HoldInv'
  <2>1. UNCHANGED <<userVars, life>>
    BY <1>1
  <2> QED
    BY <1>3, <2>1, UsersKept DEF IndInv
<1>5. CleanInv' /\ HeartInv'
  BY <1>1, <1>3, CleanKept, HeartKept DEF IndInv
<1> QED
  BY <1>2, <1>3, <1>4, <1>5 DEF IndInv

(* Every step keeps the invariant.                                          *)
LEMMA NextInv == IndInv /\ [Next]_vars => IndInv'
<1> SUFFICES ASSUME IndInv, [Next]_vars PROVE IndInv'
  OBVIOUS
<1>1. ASSUME NEW u \in Users, UserStep(u) \/ UserChoice(u) PROVE IndInv'
  <2>1. \/ Looking(u) \/ (\E c \in Clients : Dial(u, c)) \/ Drop(u) \/ PutStore(u) \/ PutPush(u)
        \/ Del(u) \/ GraceStore(u) \/ GraceClose(u)
    BY <1>1 DEF UserStep, UserChoice, Looking
  <2> QED
    BY <2>1, LookingInv, DialDropInv, PutStoreInv, PutPushInv, DelInv, GraceInv
<1>2. CASE Cleanup
  BY <1>2, CleanupInv
<1>3. CASE Heartbeat
  <2>1. HeartLooks \/ HeartDelete \/ HeartClose
    BY <1>3 DEF Heartbeat, HeartLooks
  <2> QED
    BY <2>1, HeartLooksInv, HeartDeleteInv, HeartCloseInv
<1>4. CASE UNCHANGED vars
  <2>1. UNCHANGED <<poolVars, clientVars, dying, userVars, cleanVars, heartVars>>
    BY <1>4 DEF vars
  <2>2. UNCHANGED <<clients, life, dying, retired>> /\ UNCHANGED <<userVars, life>>
    BY <2>1 DEF poolVars, clientVars
  <2>3. PoolInv' /\ DeadInv' /\ Keeps
    BY <2>2 DEF IndInv, PoolInv, PooledOnce, Pooled, DeadInv, Keeps
  <2>4. TypeOK'
    BY <2>1 DEF IndInv, TypeOK, poolVars, clientVars, userVars, cleanVars, heartVars
  <2>5. UserInv' /\ HoldInv'
    BY <2>2, <2>3, UsersKept DEF IndInv
  <2>6. CleanInv' /\ HeartInv'
    BY <2>1, <2>3, CleanKept, HeartKept DEF IndInv
  <2> QED
    BY <2>3, <2>4, <2>5, <2>6 DEF IndInv
<1>5. ASSUME NEW c \in Failing, ClientCloses(c) PROVE IndInv'
  BY <1>5, ClientClosesInv, KeepAliverAssumption
<1> QED
  BY <1>1, <1>2, <1>3, <1>4, <1>5 DEF Next

(* The inductive invariant holds in every state of a KeepAliver.            *)
THEOREM Invariance == Spec => []IndInv
  BY InitInv, NextInv, PTL DEF Spec

(* Every variable keeps its type: the counts in dying stay within           *)
(* CleanupMaxChecks (keepaliver.go:110), and Get never indexes outside the  *)
(* slice (pool.go:109-110).                                                 *)
THEOREM TypeCorrect == Spec => []TypeOK
<1>1. IndInv => TypeOK
  BY DEF IndInv
<1> QED
  BY <1>1, Invariance, PTL

(* However many users put, get and delete at once, no pool holds a client  *)
(* twice, and none holds a client of another address.                       *)
THEOREM ClientsPooledOnce == Spec => []PooledOnce
<1>1. IndInv => PooledOnce
  BY DEF IndInv, PoolInv
<1> QED
  BY <1>1, Invariance, PTL

(* A client that is dying or that the KeepAliver has closed, as retired,    *)
(* dropped or broken, is in no pool and is not put back into one, whatever  *)
(* clients close themselves meanwhile.  One that did only that may be       *)
(* pooled and handed out.                                                   *)
THEOREM RetiredClientsOut == Spec => []RetiredOut
<1>1. IndInv => RetiredOut
  BY DEF IndInv, DeadInv, RetiredOut
<1> QED
  BY <1>1, Invariance, PTL
=============================================================================
