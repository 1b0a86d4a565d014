-------------------------- MODULE PushToTalkProofs --------------------------
(* Proofs about PushToTalk, for every set of keys, buttons and radios the  *)
(* server may take away and for every bound of the runs: the types; that a *)
(* latch never goes without its Released and the joystick's edges          *)
(* alternate; that the microphone follows what is held while no two        *)
(* goroutines meet in the handler and no rebind drops a call on its way;   *)
(* and that no watchdog cuts a key but the one armed for that press.       *)
(* IInv is inductive. Its heart, BalanceInv, is the balance of every source *)
(* and action: what was counted plus the presses less the releases on      *)
(* their way is 1 while the source holds the action and 0 otherwise.       *)
EXTENDS PushToTalk, FiniteSetTheorems, SequenceTheorems, TLAPS

\* No action is named twice in what a goroutine still has to call.
Once(s) == \A i, j \in DOMAIN s : s[i].a = s[j].a => i = j

\* The calls with this edge for these actions.
Named(e, S) == {[edge |-> e, a |-> x] : x \in S}

----------------------------------------------------------------------------
(* SetToSeq enumerates a finite set.                                       *)
LEMMA EachOnce ==
  ASSUME NEW S, IsFiniteSet(S)
  PROVE  /\ Cardinality(S) \in Nat
         /\ SetToSeq(S) \in [1..Cardinality(S) -> S]
         /\ \A i, j \in 1..Cardinality(S) : SetToSeq(S)[i] = SetToSeq(S)[j] => i = j
         /\ \A x \in S : \E i \in 1..Cardinality(S) : SetToSeq(S)[i] = x
<1> DEFINE n == Cardinality(S)
<1>1. n \in Nat /\ ExistsBijection(1..n, S)
  BY FS_CardinalityType
<1>2. \E f \in [1..n -> S] : IsInjective(f)
  BY <1>1 DEF ExistsBijection, Bijection, Injection
<1>3. SetToSeq(S) \in [1..n -> S] /\ IsInjective(SetToSeq(S))
  BY <1>2 DEF SetToSeq
<1>4. SetToSeq(S) \in Injection(1..n, S)
  BY <1>3 DEF Injection
<1>5. IsFiniteSet(1..n) /\ Cardinality(1..n) = n
  BY <1>1, FS_Interval
<1>6. SetToSeq(S) \in Surjection(1..n, S)
  BY <1>4, <1>5, FS_Injection
<1> QED  BY <1>1, <1>3, <1>6 DEF IsInjective, Surjection

(* The calls for a set of actions name each of them once (sortPending).    *)
LEMMA EdgesName ==
  ASSUME NEW e \in {"press", "release"}, NEW S \in SUBSET Actions
  PROVE  /\ Edges(e, S) \in Seq(Call) /\ Once(Edges(e, S))
         /\ Rest(Edges(e, S), "next") = Named(e, S)
<1> DEFINE T == Named(e, S)
<1> DEFINE q == Edges(e, S)
<1> DEFINE n == Cardinality(T)
<1>1. IsFiniteSet(S)
  <2>1. IsFiniteSet(Actions)
    BY PttAssumption, FS_Union DEF Actions
  <2> QED  BY <2>1, FS_Subset
<1>2. IsFiniteSet(T)
  <2> DEFINE f == [x \in S |-> [edge |-> e, a |-> x]]
  <2>1. f \in [S -> T] /\ (\A x \in S : f[x].a = x) /\ (\A c \in T : \E x \in S : f[x] = c)
    BY DEF Named
  <2> HIDE DEF f
  <2>2. f \in Bijection(S, T)
    BY <2>1 DEF Bijection, Injection, Surjection, IsInjective
  <2> QED  BY <1>1, <2>2, FS_Bijection DEF ExistsBijection
<1>3. q = SetToSeq(T)
  BY DEF Edges, Named
<1>4. /\ n \in Nat /\ q \in [1..n -> T]
      /\ \A i, j \in 1..n : q[i] = q[j] => i = j
      /\ \A x \in T : \E i \in 1..n : q[i] = x
  BY <1>2, <1>3, EachOnce
<1>5. T \subseteq Call
  BY DEF Named, Call
<1>6. q \in Seq(Call) /\ DOMAIN q = 1..n
  BY <1>4, <1>5
<1>7. Once(q)
  <2> SUFFICES ASSUME NEW i \in 1..n, NEW j \in 1..n, q[i].a = q[j].a PROVE i = j
    BY <1>6 DEF Once
  <2>1. PICK x \in S : q[i] = [edge |-> e, a |-> x]
    BY <1>4 DEF Named
  <2>2. PICK y \in S : q[j] = [edge |-> e, a |-> y]
    BY <1>4 DEF Named
  <2>3. q[i] = q[j]
    BY <2>1, <2>2
  <2> QED  BY <2>3, <1>4
<1>8. Rest(q, "next") = T
  BY <1>4, <1>6 DEF Rest
<1> QED  BY <1>6, <1>7, <1>8

(* Presses and releases of different actions, one after the other (tick).  *)
LEMMA EdgesJoin ==
  ASSUME NEW P \in SUBSET Actions, NEW R \in SUBSET Actions, P \cap R = {}
  PROVE  LET s == Edges("press", P) \o Edges("release", R)
         IN  /\ s \in Seq(Call) /\ Once(s)
             /\ Rest(s, "next") = Named("press", P) \cup Named("release", R)
<1> DEFINE p == Edges("press", P)
<1> DEFINE r == Edges("release", R)
<1> DEFINE s == p \o r
<1>1. /\ p \in Seq(Call) /\ Once(p)
      /\ Rest(p, "next") = Named("press", P)
  BY EdgesName
<1>2. /\ r \in Seq(Call) /\ Once(r)
      /\ Rest(r, "next") = Named("release", R)
  BY EdgesName
<1> HIDE DEF p, r
<1>3. /\ s \in Seq(Call) /\ Len(s) = Len(p) + Len(r)
      /\ \A i \in 1..Len(p) : s[i] = p[i]
      /\ \A i \in Len(p) + 1..Len(s) : s[i] = r[i - Len(p)]
  BY <1>1, <1>2
<1>4. /\ DOMAIN p = 1..Len(p) /\ DOMAIN r = 1..Len(r) /\ DOMAIN s = 1..Len(s)
      /\ Len(p) \in Nat /\ Len(r) \in Nat /\ Len(s) \in Nat
  BY <1>1, <1>2, <1>3
<1>5. \A i \in 1..Len(p) : \E x \in P : p[i] = [edge |-> "press", a |-> x]
  <2>1. \A i \in 1..Len(p) : p[i] \in Rest(p, "next")
    BY <1>4 DEF Rest
  <2> QED  BY <2>1, <1>1 DEF Named
<1>6. \A i \in 1..Len(r) : \E x \in R : r[i] = [edge |-> "release", a |-> x]
  <2>1. \A i \in 1..Len(r) : r[i] \in Rest(r, "next")
    BY <1>4 DEF Rest
  <2> QED  BY <2>1, <1>2 DEF Named
<1>7. Once(s)
  <2> SUFFICES ASSUME NEW i \in 1..Len(s), NEW j \in 1..Len(s), s[i].a = s[j].a
               PROVE  i = j
    BY <1>4 DEF Once
  <2>1. CASE i \in 1..Len(p) /\ j \in 1..Len(p)
    BY <2>1, <1>3, <1>1, <1>4 DEF Once
  <2>2. CASE i \in Len(p) + 1..Len(s) /\ j \in Len(p) + 1..Len(s)
    <3>1. i - Len(p) \in 1..Len(r) /\ j - Len(p) \in 1..Len(r)
      BY <2>2, <1>3, <1>4
    <3>2. r[i - Len(p)].a = r[j - Len(p)].a
      BY <2>2, <1>3
    <3>3. i - Len(p) = j - Len(p)
      BY <3>1, <3>2, <1>2, <1>4 DEF Once
    <3> QED  BY <3>3, <1>4
  <2>3. \A k \in 1..Len(p), m \in Len(p) + 1..Len(s) : s[k].a # s[m].a
    <3> TAKE k \in 1..Len(p), m \in Len(p) + 1..Len(s)
    <3>1. s[k].a \in P
      <4>1. PICK x \in P : p[k] = [edge |-> "press", a |-> x]
        BY <1>5
      <4> QED  BY <4>1, <1>3
    <3>2. m - Len(p) \in 1..Len(r)
      BY <1>3, <1>4
    <3>3. s[m].a \in R
      <4>1. PICK x \in R : r[m - Len(p)] = [edge |-> "release", a |-> x]
        BY <3>2, <1>6
      <4> QED  BY <4>1, <1>3
    <3> QED  BY <3>1, <3>3
  <2>4. \/ i \in 1..Len(p) \/ i \in Len(p) + 1..Len(s)
    BY <1>4
  <2>5. \/ j \in 1..Len(p) \/ j \in Len(p) + 1..Len(s)
    BY <1>4
  <2> QED  BY <2>1, <2>2, <2>3, <2>4, <2>5
<1>8. Rest(s, "next") = Rest(p, "next") \cup Rest(r, "next")
  <2>1. ASSUME NEW i \in 1..Len(s) PROVE s[i] \in Rest(p, "next") \cup Rest(r, "next")
    <3>1. CASE i \in 1..Len(p)
      BY <3>1, <1>3, <1>4 DEF Rest
    <3>2. CASE i \notin 1..Len(p)
      <4>1. i - Len(p) \in 1..Len(r) /\ i \in Len(p) + 1..Len(s)
        BY <3>2, <1>3, <1>4
      <4> QED  BY <4>1, <1>3, <1>4 DEF Rest
    <3> QED  BY <3>1, <3>2
  <2>2. ASSUME NEW i \in 1..Len(p) PROVE p[i] \in Rest(s, "next")
    <3>1. i \in 1..Len(s)
      BY <1>3, <1>4
    <3> QED  BY <3>1, <1>3, <1>4 DEF Rest
  <2>3. ASSUME NEW i \in 1..Len(r) PROVE r[i] \in Rest(s, "next")
    <3>1. i + Len(p) \in 1..Len(s) /\ i + Len(p) \in Len(p) + 1..Len(s) /\ (i + Len(p)) - Len(p) = i
      BY <1>3, <1>4
    <3>2. s[i + Len(p)] = r[i]
      BY <3>1, <1>3
    <3> QED  BY <3>1, <3>2, <1>4 DEF Rest
  <2> QED  BY <2>1, <2>2, <2>3, <1>4 DEF Rest
<1> QED  BY <1>1, <1>2, <1>3, <1>7, <1>8 DEF p, r

(* Counting a call, and returning from it, leave the others to be counted. *)
LEMMA RestAfter ==
  ASSUME NEW s \in Seq(Call), s # NoCalls, Once(s)
  PROVE  /\ Head(s) \in Call /\ Head(s) \in Rest(s, "next")
         /\ Tail(s) \in Seq(Call) /\ Once(Tail(s))
         /\ Rest(s, "tx") = Rest(s, "next") \ {Head(s)}
         /\ Rest(s, "gate") = Rest(s, "next") \ {Head(s)}
         /\ Rest(Tail(s), "next") = Rest(s, "next") \ {Head(s)}
         /\ \A c \in Rest(s, "next") : c.a = Head(s).a => c = Head(s)
<1>1. /\ Len(s) \in Nat \ {0} /\ DOMAIN s = 1..Len(s) /\ Head(s) = s[1]
      /\ Tail(s) \in Seq(Call) /\ Len(Tail(s)) = Len(s) - 1
      /\ \A i \in 1..Len(s) - 1 : Tail(s)[i] = s[i + 1]
  BY DEF NoCalls
<1>2. DOMAIN Tail(s) = 1..Len(s) - 1
  BY <1>1
<1>3. Once(Tail(s))
  <2> SUFFICES ASSUME NEW i \in 1..Len(s) - 1, NEW j \in 1..Len(s) - 1,
                      Tail(s)[i].a = Tail(s)[j].a
               PROVE  i = j
    BY <1>2 DEF Once
  <2>1. i + 1 \in DOMAIN s /\ j + 1 \in DOMAIN s
    BY <1>1
  <2>2. i + 1 = j + 1
    BY <2>1, <1>1 DEF Once
  <2> QED  BY <2>2
<1>4. \A i \in DOMAIN s : i # 1 => s[i].a # Head(s).a
  BY <1>1 DEF Once
<1> DEFINE Later == {s[i] : i \in {j \in DOMAIN s : j > 1}}
<1>5. Rest(s, "tx") = Later /\ Rest(s, "gate") = Later
  BY DEF Rest
<1>6. Rest(s, "next") = {s[i] : i \in DOMAIN s}
  BY DEF Rest
<1>7. Later = Rest(s, "next") \ {Head(s)}
  <2>1. ASSUME NEW i \in DOMAIN s, i > 1 PROVE s[i] # Head(s)
    BY <2>1, <1>4, <1>1
  <2>2. ASSUME NEW i \in DOMAIN s, s[i] # Head(s) PROVE i > 1
    BY <2>2, <1>1
  <2> QED  BY <1>6, <2>1, <2>2
<1>8. Rest(Tail(s), "next") = Later
  <2>1. Rest(Tail(s), "next") = {Tail(s)[i] : i \in 1..Len(s) - 1}
    BY <1>2 DEF Rest
  <2>2. ASSUME NEW i \in 1..Len(s) - 1 PROVE Tail(s)[i] \in Later
    <3>1. i + 1 \in DOMAIN s /\ i + 1 > 1
      BY <1>1
    <3> QED  BY <3>1, <1>1
  <2>3. ASSUME NEW i \in DOMAIN s, i > 1 PROVE s[i] \in Rest(Tail(s), "next")
    <3>1. i - 1 \in 1..Len(s) - 1 /\ (i - 1) + 1 = i
      BY <2>3, <1>1
    <3>2. Tail(s)[i - 1] = s[i]
      BY <3>1, <1>1
    <3> QED  BY <3>1, <3>2, <2>1
  <2> QED  BY <2>1, <2>2, <2>3
<1>9. Head(s) \in Call /\ Head(s) \in Rest(s, "next")
  BY <1>1, <1>6
<1>10. \A c \in Rest(s, "next") : c.a = Head(s).a => c = Head(s)
  BY <1>6, <1>4, <1>1
<1> QED  BY <1>1, <1>3, <1>5, <1>7, <1>8, <1>9, <1>10

(* Nothing is left after the last call of a span (notifyMu's unlock).      *)
LEMMA OneLeft ==
  ASSUME NEW s \in Seq(Call), Len(s) = 1
  PROVE  Tail(s) = NoCalls
<1>0. s # << >>
  <2>1. Len(<< >>) = 0
    BY EmptySeq
  <2> QED  BY <2>1
<1>1. Tail(s) \in Seq(Call) /\ Len(Tail(s)) = 0
  <2>1. Tail(s) \in Seq(Call) /\ Len(Tail(s)) = Len(s) - 1
    BY <1>0, HeadTailProperties
  <2> QED  BY <2>1
<1> QED  BY <1>1, EmptySeq DEF NoCalls

----------------------------------------------------------------------------
(* The inductive invariant.                                                *)

Sources == {"key", "stick"}
On(src) == IF src = "key" THEN Held ELSE active
Net(src, a) == owed[src][a] + AllWaiting(src, "press", a) - AllWaiting(src, "release", a)

\* A goroutine is inside a call only while it has one.
ThreadInv ==
  \A t \in Threads : Once(calls[t]) /\ (at[t] # "next" => calls[t] # NoCalls)

\* What is latched is bound, and nothing is while the managers take turns.
KeyboardInv ==
  /\ Held \subseteq binds
  /\ (hkSuspended \/ ui = "register" => binds = {})
  /\ (ui = "register" => ~hkSuspended)

\* The union covers what either map and the managers know (applyHotkeys).
RebindInv ==
  /\ binds \cup jbinds \subseteq holds /\ registry \subseteq holds
  /\ (ui \in {"stick", "holds"} => binds \subseteq registry)
  /\ (ui = "holds" => jbinds \subseteq registry)

\* Who still has joystick calls to make holds notifyMu.
NotifyInv ==
  /\ active \subseteq jbinds
  /\ (calls["poll"] # NoCalls => notifyMu = "poll")
  /\ (calls["ui"] # NoCalls /\ ui \in {"holds", "idle"} => notifyMu = "ui")

\* What was counted and what is on its way add up to what is held.
BalanceInv ==
  \A src \in Sources, a \in Actions : Net(src, a) = IF a \in On(src) THEN 1 ELSE 0

\* A joystick call on its way is about the button as it is now.
StickInv ==
  \A t \in Threads : SourceOf(t) = "stick" =>
    \A c \in Uncounted(t) : c.edge = "press" <=> c.a \in active

AloneInv ==
  ~raced => \A t, u \in Threads : calls[t] # NoCalls /\ calls[u] # NoCalls => t = u

LateInv ==
  ~late => \A t \in Threads : \A c \in Uncounted(t) : c.a \in holds

\* The press count is the number of sources that hold the action.
CountInv ==
  \A a \in Actions : count[a] = owed["key"][a] + owed["stick"][a]

\* What transmits is what is counted, but for the call a goroutine is in.
GateInv ==
  /\ \A a \in Actions :
       (\A t \in Threads : at[t] = "tx" => Now(t).a # a) => (a \in tx <=> count[a] > 0)
  /\ \A t \in Threads : at[t] = "tx" => (Now(t).edge = "press" <=> count[Now(t).a] > 0)
  /\ (\A t \in Threads : at[t] # "gate") => (ptt <=> tx # {})
  /\ \A t \in Threads : at[t] = "gate" =>
       ((Now(t).edge = "press" \/ held[t]) <=> tx # {})

MicInv == ~raced /\ ~late => CountInv /\ GateInv

CallInv == ThreadInv /\ BalanceInv /\ StickInv /\ AloneInv /\ MicInv

IInv == TypeOK /\ KeyboardInv /\ RebindInv /\ NotifyInv /\ CallInv /\ LateInv

----------------------------------------------------------------------------
(* Types, by the groups of variables.                                      *)

PhysType ==
  /\ keyDown \subseteq Keyed /\ btnDown \subseteq Stick
  /\ presses \in 0..MaxPresses /\ faults \in 0..MaxFaults
KeybType ==
  /\ binds \subseteq Keyed /\ latched \in [Keyed -> 0..MaxGen] /\ gen \in 0..MaxGen
  /\ fired \in [Keyed -> SUBSET (1..MaxGen)] /\ stream \in {"up", "dead"}
  /\ hkSuspended \in BOOLEAN
JoyType ==
  /\ jbinds \subseteq Stick /\ active \subseteq Stick
  /\ notifyMu \in {"free", "poll", "ui"} /\ jmSuspended \in BOOLEAN
AppType ==
  /\ holds \subseteq Actions /\ count \in [Actions -> Nat]
  /\ tx \subseteq Actions /\ ptt \in BOOLEAN
ThrType ==
  /\ calls \in [Threads -> Seq(Call)]
  /\ at \in [Threads -> {"next", "tx", "gate"}]
  /\ held \in [Threads -> BOOLEAN]
  /\ owed \in [{"key", "stick"} -> [Actions -> Int]]
  /\ raced \in BOOLEAN /\ late \in BOOLEAN
UiType ==
  /\ ui \in {"idle", "clear", "register", "stick", "holds", "suspend", "resume"}
  /\ registry \subseteq Actions /\ ops \in 0..MaxOps

(* The groups are the type invariant.                                      *)
LEMMA TypeParts ==
  TypeOK <=> PhysType /\ KeybType /\ JoyType /\ AppType /\ ThrType /\ UiType
  BY DEF TypeOK, PhysType, KeybType, JoyType, AppType, ThrType, UiType

(* What a step leaves alone keeps its type.                                *)
LEMMA TypeKept ==
  ASSUME TypeOK
  PROVE  /\ (UNCHANGED phys => PhysType') /\ (UNCHANGED keyb => KeybType')
         /\ (UNCHANGED joy => JoyType') /\ (UNCHANGED app => AppType')
         /\ (UNCHANGED thr => ThrType') /\ (UNCHANGED uiv => UiType')
<1> USE TypeParts
<1>1. UNCHANGED phys => PhysType'
  BY DEF phys, PhysType
<1>2. UNCHANGED keyb => KeybType'
  BY DEF keyb, KeybType
<1>3. UNCHANGED joy => JoyType'
  BY DEF joy, JoyType
<1>4. UNCHANGED app => AppType'
  BY DEF app, AppType
<1>5. UNCHANGED thr => ThrType'
  BY DEF thr, ThrType
<1>6. UNCHANGED uiv => UiType'
  BY DEF uiv, UiType
<1> QED  BY <1>1, <1>2, <1>3, <1>4, <1>5, <1>6

(* Leaving a lock with calls to make (handle, tick).                       *)
LEMMA BeginType ==
  ASSUME TypeOK, NEW t \in Threads, NEW s \in Seq(Call), Begin(t, s)
  PROVE  ThrType'
  BY DEF Begin, TypeOK, ThrType

(* Latches are taken, and the calls for them owed (takeLatchLocked).       *)
LEMMA TakeType ==
  ASSUME TypeOK, NEW t \in Threads, NEW S, TakeLatches(t, S)
  PROVE  ThrType' /\ latched' \in [Keyed -> 0..MaxGen]
<1>1. Held \cap S \cap binds \in SUBSET Actions
  BY DEF Held, Actions
<1>2. ThrType'
  BY <1>1, EdgesName, BeginType DEF TakeLatches
<1>3. latched' \in [Keyed -> 0..MaxGen]
  BY PttAssumption DEF TakeLatches, TypeOK, PttAssumption
<1> QED  BY <1>2, <1>3

(* The call a goroutine is in names one of the actions, and its source.    *)
LEMMA NowType ==
  ASSUME TypeOK, NEW t \in Threads, calls[t] # NoCalls
  PROVE  /\ Now(t) \in Call /\ Now(t).a \in Actions /\ Now(t).edge \in {"press", "release"}
         /\ SourceOf(t) \in {"key", "stick"}
         /\ Now(t) = [edge |-> Now(t).edge, a |-> Now(t).a]
<1>1. Now(t) \in Call
  BY DEF Now, TypeOK, NoCalls
<1> QED  BY <1>1 DEF Call, SourceOf

(* Counting a call moves the balance of its source and action alone.       *)
LEMMA OwedMoves ==
  ASSUME TypeOK, NEW t \in Threads, calls[t] # NoCalls, Enter(t)
  PROVE  /\ owed' \in [{"key", "stick"} -> [Actions -> Int]]
         /\ \A r \in {"key", "stick"}, b \in Actions :
              owed'[r][b] = owed[r][b] +
                (IF r = SourceOf(t) /\ b = Now(t).a
                 THEN IF Now(t).edge = "press" THEN 1 ELSE -1
                 ELSE 0)
<1>1. PICK src \in {"key", "stick"} : src = SourceOf(t)
  BY NowType
<1>2. PICK x \in Actions : x = Now(t).a
  BY NowType
<1>3. owed[src] \in [Actions -> Int] /\ owed[src][x] \in Int
  BY DEF TypeOK
<1>4. PICK v \in Int : v = owed[src][x] + (IF Now(t).edge = "press" THEN 1 ELSE -1)
  <2>1. owed[src][x] + (IF Now(t).edge = "press" THEN 1 ELSE -1) \in Int
    BY <1>3
  <2> QED  BY <2>1
<1>5. v = IF Now(t).edge = "press" THEN owed[src][x] + 1 ELSE owed[src][x] - 1
  BY <1>3, <1>4
<1>6. owed' = [owed EXCEPT ![src] = [owed[src] EXCEPT ![x] = v]]
  BY <1>1, <1>2, <1>5 DEF Enter
<1>7. [owed[src] EXCEPT ![x] = v] \in [Actions -> Int]
  BY <1>3, <1>4
<1>8. owed' \in [{"key", "stick"} -> [Actions -> Int]]
  BY <1>6, <1>7 DEF TypeOK
<1>9. ASSUME NEW r \in {"key", "stick"}, NEW b \in Actions
      PROVE  owed'[r][b] = owed[r][b] +
               (IF r = src /\ b = x THEN IF Now(t).edge = "press" THEN 1 ELSE -1 ELSE 0)
  <2>1. owed[r][b] \in Int
    BY DEF TypeOK
  <2>2. owed'[r] = IF r = src THEN [owed[src] EXCEPT ![x] = v] ELSE owed[r]
    BY <1>6 DEF TypeOK
  <2>3. owed'[r][b] = IF r = src /\ b = x THEN v ELSE owed[r][b]
    BY <2>2, <1>3
  <2> QED  BY <2>1, <2>3, <1>4
<1> QED  BY <1>1, <1>2, <1>8, <1>9

(* A handler step (pressed, released, txPress, txRelease, SetPTT).         *)
LEMMA HandlerType ==
  ASSUME TypeOK, ThreadInv, NEW t \in Threads, HandlerStep(t)
  PROVE  TypeOK'
<1>1. calls[t] # NoCalls
  BY DEF HandlerStep, Enter, TxPress, TxRelease, Gate, ThreadInv
<1>2. /\ Now(t) \in Call /\ Now(t).a \in Actions
      /\ SourceOf(t) \in {"key", "stick"}
  BY <1>1, NowType
<1>3. Tail(calls[t]) \in Seq(Call)
  BY <1>1 DEF TypeOK, NoCalls
<1>4. ASSUME Return(t) PROVE /\ calls' \in [Threads -> Seq(Call)]
                             /\ at' \in [Threads -> {"next", "tx", "gate"}]
                             /\ held' \in [Threads -> BOOLEAN]
                             /\ notifyMu' \in {"free", "poll", "ui"}
  BY <1>3, <1>4 DEF Return, TypeOK
<1>5. ASSUME NEW step \in {"tx", "gate"}, Goes(t, step)
      PROVE  /\ calls' \in [Threads -> Seq(Call)]
             /\ at' \in [Threads -> {"next", "tx", "gate"}]
             /\ held' \in [Threads -> BOOLEAN]
             /\ notifyMu' \in {"free", "poll", "ui"}
  BY <1>5 DEF Goes, TypeOK
<1>6. CASE Enter(t)
  <2>1. /\ calls' \in [Threads -> Seq(Call)] /\ at' \in [Threads -> {"next", "tx", "gate"}]
        /\ held' \in [Threads -> BOOLEAN] /\ notifyMu' \in {"free", "poll", "ui"}
    BY <1>4, <1>5, <1>6 DEF Enter
  <2>2. Counted(Now(t)) \in Nat
    BY <1>2 DEF Counted, TypeOK
  <2>3. count' \in [Actions -> Nat]
    BY <1>6, <2>2 DEF Enter, TypeOK
  <2>4. owed' \in [{"key", "stick"} -> [Actions -> Int]]
    BY <1>1, <1>6, OwedMoves
  <2>5. UNCHANGED <<phys, keyb, jbinds, active, jmSuspended, holds, tx, ptt, raced, late, uiv>>
    BY <1>6 DEF Enter
  <2>6. PhysType' /\ KeybType' /\ UiType'
    BY <2>5, TypeKept
  <2>7. JoyType' /\ AppType' /\ ThrType'
    BY <2>1, <2>3, <2>4, <2>5 DEF TypeOK, JoyType, AppType, ThrType
  <2> QED  BY <2>6, <2>7 DEF TypeOK, PhysType, KeybType, JoyType, AppType, ThrType, UiType
<1>7. CASE TxPress(t)
  <2>1. /\ calls' \in [Threads -> Seq(Call)] /\ at' \in [Threads -> {"next", "tx", "gate"}]
        /\ held' \in [Threads -> BOOLEAN] /\ notifyMu' \in {"free", "poll", "ui"}
    BY <1>5, <1>7 DEF TxPress
  <2>2. tx' \subseteq Actions
    BY <1>2, <1>7 DEF TxPress, TypeOK
  <2>3. UNCHANGED <<phys, keyb, jbinds, active, jmSuspended, holds, count, ptt, owed, raced,
                    late, uiv>>
    BY <1>7 DEF TxPress
  <2>4. PhysType' /\ KeybType' /\ UiType'
    BY <2>3, TypeKept
  <2>5. JoyType' /\ AppType' /\ ThrType'
    BY <2>1, <2>2, <2>3 DEF TypeOK, JoyType, AppType, ThrType
  <2> QED  BY <2>4, <2>5 DEF TypeOK, PhysType, KeybType, JoyType, AppType, ThrType, UiType
<1>8. CASE TxRelease(t)
  <2>1. at' \in [Threads -> {"next", "tx", "gate"}] /\ held' \in [Threads -> BOOLEAN]
    BY <1>8 DEF TxRelease, TypeOK
  <2>2. tx' \subseteq Actions
    BY <1>8 DEF TxRelease, TypeOK
  <2>3. UNCHANGED <<phys, keyb, joy, holds, count, ptt, calls, owed, raced, late, uiv>>
    BY <1>8 DEF TxRelease
  <2>4. PhysType' /\ KeybType' /\ JoyType' /\ UiType'
    BY <2>3, TypeKept
  <2>5. AppType' /\ ThrType'
    BY <2>1, <2>2, <2>3 DEF TypeOK, AppType, ThrType
  <2> QED  BY <2>4, <2>5 DEF TypeOK, PhysType, KeybType, JoyType, AppType, ThrType, UiType
<1>9. CASE Gate(t)
  <2>1. /\ calls' \in [Threads -> Seq(Call)] /\ at' \in [Threads -> {"next", "tx", "gate"}]
        /\ held' \in [Threads -> BOOLEAN] /\ notifyMu' \in {"free", "poll", "ui"}
    BY <1>4, <1>9 DEF Gate
  <2>2. ptt' \in BOOLEAN
    BY <1>9 DEF Gate, TypeOK
  <2>3. UNCHANGED <<phys, keyb, jbinds, active, jmSuspended, holds, count, tx, owed, raced,
                    late, uiv>>
    BY <1>9 DEF Gate
  <2>4. PhysType' /\ KeybType' /\ UiType'
    BY <2>3, TypeKept
  <2>5. JoyType' /\ AppType' /\ ThrType'
    BY <2>1, <2>2, <2>3 DEF TypeOK, JoyType, AppType, ThrType
  <2> QED  BY <2>4, <2>5 DEF TypeOK, PhysType, KeybType, JoyType, AppType, ThrType, UiType
<1> QED  BY <1>6, <1>7, <1>8, <1>9 DEF HandlerStep

(* Every step of the user, the OS, the managers and the application keeps  *)
(* the types (handle, tick, applyHotkeys, BeginCapture, pressed).          *)
LEMMA TypeNext == TypeOK /\ ThreadInv /\ [Next]_vars => TypeOK'
<1> SUFFICES ASSUME TypeOK, ThreadInv, [Next]_vars PROVE TypeOK'
  OBVIOUS
<1> USE PttAssumption DEF PttAssumption
<1>0. PhysType /\ KeybType /\ JoyType /\ AppType /\ ThrType /\ UiType
  BY TypeParts
<1> DEFINE Goal == PhysType' /\ KeybType' /\ JoyType' /\ AppType' /\ ThrType' /\ UiType'
<1> SUFFICES Goal
  BY DEF TypeOK, PhysType, KeybType, JoyType, AppType, ThrType, UiType
<1> HIDE DEF Goal
<1>s. NoCalls \in Seq(Call)
  BY DEF NoCalls
<1>e. \A e \in {"press", "release"}, S \in SUBSET Actions : Edges(e, S) \in Seq(Call)
  BY EdgesName
<1>1. ASSUME NEW a \in Keyed, KeyDown(a) PROVE Goal
  <2>1. UNCHANGED <<joy, app, uiv>>
    BY <1>1 DEF KeyDown
  <2>2. JoyType' /\ AppType' /\ UiType'
    BY <2>1, TypeKept
  <2>3. PhysType'
    BY <1>1, <1>0 DEF KeyDown, PhysType
  <2>4. KeybType'
    BY <1>1, <1>0 DEF KeyDown, KeybType, SetLatch
  <2>5. ThrType'
    BY <1>1, <1>s, <1>e, BeginType DEF KeyDown, Actions, Threads
  <2> QED  BY <1>0, <2>1, <2>2, <2>3, <2>4, <2>5 DEF Goal
<1>2. ASSUME NEW a \in Keyed, KeyUp(a) PROVE Goal
  <2>1. UNCHANGED <<joy, app, uiv>>
    BY <1>2 DEF KeyUp
  <2>2. JoyType' /\ AppType' /\ UiType'
    BY <2>1, TypeKept
  <2>3. PhysType'
    BY <1>2, <1>0 DEF KeyUp, PhysType
  <2>4. TakeLatches("hook", {a} \cap binds) /\ UNCHANGED <<binds, gen, fired, stream, hkSuspended>>
    BY <1>2 DEF KeyUp
  <2>5. ThrType' /\ KeybType'
    BY <1>0, <2>4, TakeType DEF KeybType, Threads
  <2> QED  BY <1>0, <2>1, <2>2, <2>3, <2>4, <2>5 DEF Goal
<1>3. ASSUME NEW a \in Keyed, KeyUpLost(a) PROVE Goal
  <2>1. UNCHANGED <<keyb, joy, app, thr, uiv>>
    BY <1>3 DEF KeyUpLost
  <2>2. KeybType' /\ JoyType' /\ AppType' /\ ThrType' /\ UiType'
    BY <2>1, TypeKept
  <2>3. PhysType'
    BY <1>3, <1>0 DEF KeyUpLost, PhysType
  <2> QED  BY <1>0, <2>1, <2>2, <2>3 DEF Goal
<1>4. ASSUME StreamDies PROVE Goal
  <2>1. UNCHANGED <<joy, app, uiv>>
    BY <1>4 DEF StreamDies
  <2>2. JoyType' /\ AppType' /\ UiType'
    BY <2>1, TypeKept
  <2>3. PhysType'
    BY <1>4, <1>0 DEF StreamDies, PhysType
  <2>4. /\ TakeLatches("hook", Keyed) /\ stream' = "dead"
        /\ UNCHANGED <<binds, gen, fired, hkSuspended>>
    BY <1>4 DEF StreamDies
  <2>5. ThrType' /\ KeybType'
    BY <1>0, <2>4, TakeType DEF KeybType, Threads
  <2> QED  BY <1>0, <2>1, <2>2, <2>3, <2>4, <2>5 DEF Goal
<1>5. ASSUME NEW a \in Keyed, Expire(a) PROVE Goal
  <2>1. UNCHANGED <<phys, joy, app, thr, uiv>>
    BY <1>5 DEF Expire
  <2>2. PhysType' /\ JoyType' /\ AppType' /\ ThrType' /\ UiType'
    BY <2>1, TypeKept
  <2>3. KeybType'
    BY <1>5, <1>0 DEF Expire, KeybType, Armed
  <2> QED  BY <1>0, <2>1, <2>2, <2>3 DEF Goal
<1>6. ASSUME NEW a \in Keyed, NEW g \in fired[a], ForceRelease(a, g) PROVE Goal
  <2>1. UNCHANGED <<phys, joy, app, uiv>>
    BY <1>6 DEF ForceRelease
  <2>2. PhysType' /\ JoyType' /\ AppType' /\ UiType'
    BY <2>1, TypeKept
  <2>3. fired' \in [Keyed -> SUBSET (1..MaxGen)] /\ UNCHANGED <<binds, gen, stream, hkSuspended>>
    BY <1>6, <1>0 DEF ForceRelease, KeybType
  <2>4. PICK S : TakeLatches("dog", S)
    BY <1>6 DEF ForceRelease
  <2>5. ThrType' /\ KeybType'
    BY <1>0, <2>3, <2>4, TakeType DEF KeybType, Threads
  <2> QED  BY <1>0, <2>1, <2>2, <2>3, <2>4, <2>5 DEF Goal
<1>7. ASSUME NEW a \in Stick, ButtonDown(a) \/ ButtonUp(a) PROVE Goal
  <2>1. UNCHANGED <<keyb, joy, app, thr, uiv>>
    BY <1>7 DEF ButtonDown, ButtonUp
  <2>2. KeybType' /\ JoyType' /\ AppType' /\ ThrType' /\ UiType'
    BY <2>1, TypeKept
  <2>3. PhysType'
    BY <1>7, <1>0 DEF ButtonDown, ButtonUp, PhysType
  <2> QED  BY <2>2, <2>3 DEF Goal
<1>8. ASSUME Tick PROVE Goal
  <2>1. UNCHANGED <<phys, keyb, app, uiv>>
    BY <1>8 DEF Tick
  <2>2. PhysType' /\ KeybType' /\ AppType' /\ UiType'
    BY <2>1, TypeKept
  <2>3. /\ btnDown \cap jbinds \subseteq Stick
        /\ (btnDown \cap jbinds) \ active \in SUBSET Actions
        /\ (active \ (btnDown \cap jbinds)) \cap jbinds \in SUBSET Actions
    BY <1>0 DEF JoyType, Actions
  <2>4. Edges("press", (btnDown \cap jbinds) \ active) \o
          Edges("release", (active \ (btnDown \cap jbinds)) \cap jbinds) \in Seq(Call)
    BY <1>e, <2>3
  <2>5. PICK s \in Seq(Call) : TakeNotify("poll", s)
    BY <1>8, <2>4 DEF Tick
  <2>6. ThrType' /\ notifyMu' \in {"free", "poll"}
    BY <2>5, BeginType DEF TakeNotify, Threads
  <2>7. active' = btnDown \cap jbinds /\ UNCHANGED <<jbinds, jmSuspended>>
    BY <1>8 DEF Tick
  <2>8. JoyType'
    BY <1>0, <2>3, <2>6, <2>7 DEF JoyType
  <2> QED  BY <1>0, <2>1, <2>2, <2>3, <2>4, <2>5, <2>6, <2>7, <2>8 DEF Goal
<1>9. ASSUME NEW R \in {Actions, Actions \ Transient}, StartApply(R) PROVE Goal
  <2>1. UNCHANGED <<phys, keyb, joy, thr>>
    BY <1>9 DEF StartApply
  <2>2. PhysType' /\ KeybType' /\ JoyType' /\ ThrType'
    BY <2>1, TypeKept
  <2>3. UiType'
    BY <1>9, <1>0 DEF StartApply, UiIs, UiType
  <2>4. AppType'
    BY <1>9, <1>0 DEF StartApply, UnionHolds, AppType
  <2> QED  BY <1>0, <2>1, <2>2, <2>3, <2>4 DEF Goal
<1>10. ASSUME Suspend PROVE Goal
  <2>1. UNCHANGED <<phys, joy, app>>
    BY <1>10 DEF Suspend
  <2>2. PhysType' /\ JoyType' /\ AppType'
    BY <2>1, TypeKept
  <2>3. UiType'
    BY <1>10, <1>0 DEF Suspend, UiIs, UiType
  <2>4. /\ TakeLatches("ui", Keyed) /\ binds' = {} /\ hkSuspended' = TRUE
        /\ UNCHANGED <<gen, fired, stream>>
    BY <1>10 DEF Suspend, Clear
  <2>5. ThrType' /\ KeybType'
    BY <1>0, <2>4, TakeType DEF KeybType, Threads
  <2> QED  BY <1>0, <2>1, <2>2, <2>3, <2>4, <2>5 DEF Goal
<1>11. ASSUME Resume PROVE Goal
  <2>1. UNCHANGED <<phys, joy, app, thr>>
    BY <1>11 DEF Resume
  <2>2. PhysType' /\ JoyType' /\ AppType' /\ ThrType'
    BY <2>1, TypeKept
  <2>3. UiType'
    BY <1>11, <1>0 DEF Resume, UiIs, UiType
  <2>4. KeybType'
    BY <1>11, <1>0 DEF Resume, KeybType
  <2> QED  BY <1>0, <2>1, <2>2, <2>3, <2>4 DEF Goal
<1>12. ASSUME ApplyClears PROVE Goal
  <2>1. UNCHANGED <<phys, joy, app>>
    BY <1>12 DEF ApplyClears
  <2>2. PhysType' /\ JoyType' /\ AppType'
    BY <2>1, TypeKept
  <2>3. UiType'
    BY <1>12, <1>0 DEF ApplyClears, UiIs, UiType
  <2>4. TakeLatches("ui", Keyed) /\ binds' = {} /\ UNCHANGED <<gen, fired, stream, hkSuspended>>
    BY <1>12 DEF ApplyClears, Clear
  <2>5. ThrType' /\ KeybType'
    BY <1>0, <2>4, TakeType DEF KeybType, Threads
  <2> QED  BY <1>0, <2>1, <2>2, <2>3, <2>4, <2>5 DEF Goal
<1>13. ASSUME ApplyRecords PROVE Goal
  <2>1. UNCHANGED <<phys, keyb, joy, app, thr>>
    BY <1>13 DEF ApplyRecords
  <2>2. PhysType' /\ KeybType' /\ JoyType' /\ AppType' /\ ThrType'
    BY <2>1, TypeKept
  <2>3. UiType'
    BY <1>13, <1>0 DEF ApplyRecords, UiIs, UiType
  <2> QED  BY <1>0, <2>1, <2>2, <2>3 DEF Goal
<1>14. ASSUME Register PROVE Goal
  <2>1. UNCHANGED <<phys, joy, app, thr>>
    BY <1>14 DEF Register
  <2>2. PhysType' /\ JoyType' /\ AppType' /\ ThrType'
    BY <2>1, TypeKept
  <2>3. UiType'
    BY <1>14, <1>0 DEF Register, UiIs, UiType
  <2>4. KeybType'
    BY <1>14, <1>0 DEF Register, KeybType
  <2> QED  BY <1>0, <2>1, <2>2, <2>3, <2>4 DEF Goal
<1>15. ASSUME ApplyStick PROVE Goal
  <2>1. UNCHANGED <<phys, keyb, app>>
    BY <1>15 DEF ApplyStick
  <2>2. PhysType' /\ KeybType' /\ AppType'
    BY <2>1, TypeKept
  <2>3. UiType'
    BY <1>15, <1>0 DEF ApplyStick, UiIs, UiType
  <2>4. active \cap jbinds \in SUBSET Actions
    BY <1>0 DEF JoyType, Actions
  <2>5. PICK s \in Seq(Call) : TakeNotify("ui", s)
    BY <1>15, <1>e, <2>4 DEF ApplyStick
  <2>6. ThrType' /\ notifyMu' \in {"free", "ui"}
    BY <2>5, BeginType DEF TakeNotify, Threads
  <2>7. active' = active \ jbinds /\ jbinds' \subseteq Stick /\ UNCHANGED jmSuspended
    BY <1>15 DEF ApplyStick
  <2>8. JoyType'
    BY <1>0, <2>6, <2>7 DEF JoyType
  <2> QED  BY <1>0, <2>1, <2>2, <2>3, <2>4, <2>5, <2>6, <2>7, <2>8 DEF Goal
<1>16. ASSUME SuspendStick PROVE Goal
  <2>1. UNCHANGED <<phys, keyb, app>>
    BY <1>16 DEF SuspendStick
  <2>2. PhysType' /\ KeybType' /\ AppType'
    BY <2>1, TypeKept
  <2>3. UiType'
    BY <1>16, <1>0 DEF SuspendStick, UiIs, UiType
  <2>4. active \cap jbinds \in SUBSET Actions
    BY <1>0 DEF JoyType, Actions
  <2>5. PICK s \in Seq(Call) : TakeNotify("ui", s)
    BY <1>16, <1>e, <2>4 DEF SuspendStick
  <2>6. ThrType' /\ notifyMu' \in {"free", "ui"}
    BY <2>5, BeginType DEF TakeNotify, Threads
  <2>7. active' = active \ jbinds /\ jbinds' = jbinds /\ jmSuspended' = TRUE
    BY <1>16 DEF SuspendStick
  <2>8. JoyType'
    BY <1>0, <2>6, <2>7 DEF JoyType
  <2> QED  BY <1>0, <2>1, <2>2, <2>3, <2>4, <2>5, <2>6, <2>7, <2>8 DEF Goal
<1>17. ASSUME EndApply PROVE Goal
  <2>1. UNCHANGED <<phys, keyb, joy>>
    BY <1>17 DEF EndApply
  <2>2. PhysType' /\ KeybType' /\ JoyType'
    BY <2>1, TypeKept
  <2>3. UiType'
    BY <1>17, <1>0 DEF EndApply, UiIs, UiType
  <2>4. AppType'
    BY <1>17, <1>0 DEF EndApply, AppType, UiType
  <2>5. late' \in BOOLEAN /\ UNCHANGED <<calls, at, held, owed, raced>>
    BY <1>17 DEF EndApply
  <2>6. ThrType'
    BY <1>0, <2>5 DEF ThrType
  <2> QED  BY <1>0, <2>1, <2>2, <2>3, <2>4, <2>5, <2>6 DEF Goal
<1>18. ASSUME ResumeStick PROVE Goal
  <2>1. UNCHANGED <<phys, keyb, app, thr>>
    BY <1>18 DEF ResumeStick
  <2>2. PhysType' /\ KeybType' /\ AppType' /\ ThrType'
    BY <2>1, TypeKept
  <2>3. UiType'
    BY <1>18, <1>0 DEF ResumeStick, UiIs, UiType
  <2>4. JoyType'
    BY <1>18, <1>0 DEF ResumeStick, JoyType
  <2> QED  BY <1>0, <2>1, <2>2, <2>3, <2>4 DEF Goal
<1>19. ASSUME NEW t \in Threads, HandlerStep(t) PROVE Goal
  BY <1>19, HandlerType, TypeParts
     DEF TypeOK, Goal, PhysType, KeybType, JoyType, AppType, ThrType, UiType
<1>20. CASE UNCHANGED vars
  BY <1>20, TypeKept DEF vars, Goal
<1> QED  BY <1>1, <1>2, <1>3, <1>4, <1>5, <1>6, <1>7, <1>8, <1>9, <1>10, <1>11, <1>12, <1>13,
            <1>14, <1>15, <1>16, <1>17, <1>18, <1>19, <1>20
         DEF Next, UiEnds, WatchdogStep

----------------------------------------------------------------------------
(* Sums over the four goroutines.                                          *)

(* Only one goroutine's calls changed: so did the sum, by as much.         *)
LEMMA SumOfOne ==
  ASSUME NEW t \in Threads, NEW src, NEW e, NEW a,
         \A u \in Threads \ {t} : Waiting(u, src, e, a)' = Waiting(u, src, e, a)
  PROVE  /\ AllWaiting(src, e, a) \in Nat
         /\ AllWaiting(src, e, a)' =
              AllWaiting(src, e, a) + Waiting(t, src, e, a)' - Waiting(t, src, e, a)
<1>1. \A u \in Threads : Waiting(u, src, e, a) \in {0, 1} /\ Waiting(u, src, e, a)' \in {0, 1}
  BY DEF Waiting
<1>2. CASE t = "hook"
  BY <1>1, <1>2 DEF AllWaiting, Threads
<1>3. CASE t = "dog"
  BY <1>1, <1>3 DEF AllWaiting, Threads
<1>4. CASE t = "poll"
  BY <1>1, <1>4 DEF AllWaiting, Threads
<1>5. CASE t = "ui"
  BY <1>1, <1>5 DEF AllWaiting, Threads
<1> QED  BY <1>2, <1>3, <1>4, <1>5 DEF Threads

(* What is owed and on its way is an integer.                              *)
LEMMA NetType ==
  ASSUME TypeOK, NEW src \in Sources, NEW a \in Actions
  PROVE  /\ owed[src][a] \in Int
         /\ \A e : AllWaiting(src, e, a) \in Nat
         /\ Net(src, a) \in Int
<1>1. owed[src][a] \in Int
  BY DEF TypeOK, Sources
<1>2. \A e : AllWaiting(src, e, a) \in Nat
  BY DEF AllWaiting, Waiting
<1> QED  BY <1>1, <1>2 DEF Net

(* A goroutine without calls has none to be counted.                       *)
LEMMA NothingUncounted ==
  ASSUME NEW t \in Threads, calls[t] = NoCalls
  PROVE  Uncounted(t) = {}
  BY DEF Uncounted, Rest, NoCalls

(* What a goroutine that just left its lock has on its way.                *)
LEMMA BeginUncounted ==
  ASSUME TypeOK, ThreadInv, NEW t \in Threads, NEW s \in Seq(Call), Once(s), Begin(t, s)
  PROVE  /\ calls[t] = NoCalls /\ at[t] = "next" /\ calls'[t] = s /\ at' = at
         /\ Uncounted(t) = {} /\ Uncounted(t)' = Rest(s, "next")
         /\ \A u \in Threads \ {t} : calls'[u] = calls[u] /\ Uncounted(u)' = Uncounted(u)
         /\ ThreadInv'
<1>1. calls[t] = NoCalls /\ calls' = [calls EXCEPT ![t] = s] /\ at' = at
  BY DEF Begin
<1>2. at[t] = "next"
  BY <1>1 DEF ThreadInv
<1>3. calls'[t] = s /\ (\A u \in Threads \ {t} : calls'[u] = calls[u])
  BY <1>1 DEF TypeOK
<1>4. Uncounted(t) = {} /\ Uncounted(t)' = Rest(s, "next")
  BY <1>1, <1>2, <1>3, NothingUncounted DEF Uncounted
<1>5. \A u \in Threads \ {t} : Uncounted(u)' = Uncounted(u)
  BY <1>1, <1>3 DEF Uncounted
<1>6. ThreadInv'
  BY <1>1, <1>2, <1>3 DEF ThreadInv
<1> QED  BY <1>1, <1>2, <1>3, <1>4, <1>5, <1>6

----------------------------------------------------------------------------
(* Leaving a lock: the calls to make are the difference between what was   *)
(* held and what is (handle, takeLatchLocked, tick, takeActiveLocked).     *)

\* The calls of s are those that tell source src of its change.
Tells(s, src) ==
  Rest(s, "next") =
    Named("press", On(src)' \ On(src)) \cup Named("release", On(src) \ On(src)')

(* The balance stands.                                                     *)
LEMMA BeginBalance ==
  ASSUME TypeOK, TypeOK', ThreadInv, BalanceInv, NEW t \in Threads, NEW s \in Seq(Call),
         Once(s), Begin(t, s), t = "ui" \/ ui' = ui,
         NEW src \in Sources, src = SourceOf(t)', Tells(s, src),
         \A r \in Sources \ {src} : On(r)' = On(r)
  PROVE  BalanceInv'
<1>1. /\ calls[t] = NoCalls /\ Uncounted(t) = {} /\ Uncounted(t)' = Rest(s, "next")
      /\ \A u \in Threads \ {t} : Uncounted(u)' = Uncounted(u)
  BY BeginUncounted
<1>2. \A u \in Threads \ {t} : SourceOf(u)' = SourceOf(u)
  BY DEF SourceOf
<1>3. owed' = owed
  BY DEF Begin
<1> SUFFICES ASSUME NEW r \in Sources, NEW a \in Actions
             PROVE  Net(r, a)' = IF a \in On(r)' THEN 1 ELSE 0
  BY DEF BalanceInv
<1>5. ASSUME NEW e
      PROVE  /\ AllWaiting(r, e, a) \in Nat
             /\ AllWaiting(r, e, a)' =
                  AllWaiting(r, e, a) +
                    (IF r = src /\ [edge |-> e, a |-> a] \in Rest(s, "next") THEN 1 ELSE 0)
  <2>1. \A u \in Threads \ {t} : Waiting(u, r, e, a)' = Waiting(u, r, e, a)
    BY <1>1, <1>2 DEF Waiting
  <2>2. Waiting(t, r, e, a) = 0
    BY <1>1 DEF Waiting
  <2>3. Waiting(t, r, e, a)' =
          (IF r = src /\ [edge |-> e, a |-> a] \in Rest(s, "next") THEN 1 ELSE 0)
    BY <1>1 DEF Waiting
  <2> QED  BY <2>1, <2>2, <2>3, SumOfOne
<1>6. Net(r, a) = IF a \in On(r) THEN 1 ELSE 0
  BY DEF BalanceInv
<1>7. owed[r][a] \in Int
  BY NetType
<1>8. CASE r # src
  <2>1. On(r)' = On(r)
    BY <1>8
  <2>2. AllWaiting(r, "press", a)' = AllWaiting(r, "press", a)
    BY <1>5, <1>8
  <2>3. AllWaiting(r, "release", a)' = AllWaiting(r, "release", a)
    BY <1>5, <1>8
  <2> QED  BY <2>1, <2>2, <2>3, <1>3, <1>6 DEF Net
<1>9. CASE r = src
  <2>1. [edge |-> "press", a |-> a] \in Rest(s, "next") <=> a \in On(r)' \ On(r)
    BY <1>9 DEF Tells, Named
  <2>2. [edge |-> "release", a |-> a] \in Rest(s, "next") <=> a \in On(r) \ On(r)'
    BY <1>9 DEF Tells, Named
  <2>3. AllWaiting(r, "press", a)' =
          AllWaiting(r, "press", a) + (IF a \in On(r)' \ On(r) THEN 1 ELSE 0)
    BY <1>5, <1>9, <2>1
  <2>4. AllWaiting(r, "release", a)' =
          AllWaiting(r, "release", a) + (IF a \in On(r) \ On(r)' THEN 1 ELSE 0)
    BY <1>5, <1>9, <2>2
  <2>5. AllWaiting(r, "press", a) \in Nat /\ AllWaiting(r, "release", a) \in Nat
    BY NetType
  <2>6. Net(r, a)' = Net(r, a) + (IF a \in On(r)' \ On(r) THEN 1 ELSE 0)
                               - (IF a \in On(r) \ On(r)' THEN 1 ELSE 0)
    BY <2>3, <2>4, <2>5, <1>3, <1>7 DEF Net
  <2> QED  BY <2>6, <1>6
<1> QED  BY <1>8, <1>9

\* Nobody else has joystick calls to make while active changes (notifyMu).
Excluded(t) ==
  active' # active \/ SourceOf(t)' = "stick" =>
    \A u \in Threads : SourceOf(u) = "stick" => calls[u] = NoCalls

(* The joystick's calls are about the buttons as they are.                 *)
LEMMA BeginStick ==
  ASSUME TypeOK, ThreadInv, StickInv, NEW t \in Threads, NEW s \in Seq(Call),
         Once(s), Begin(t, s), t = "ui" \/ ui' = ui,
         SourceOf(t)' = "stick" => Tells(s, "stick"), Excluded(t)
  PROVE  StickInv'
<1>1. /\ Uncounted(t) = {} /\ Uncounted(t)' = Rest(s, "next")
      /\ \A u \in Threads \ {t} : Uncounted(u)' = Uncounted(u)
  BY BeginUncounted
<1>2. \A u \in Threads \ {t} : SourceOf(u)' = SourceOf(u)
  BY DEF SourceOf
<1> SUFFICES ASSUME NEW u \in Threads, SourceOf(u)' = "stick", NEW c \in Uncounted(u)'
             PROVE  c.edge = "press" <=> c.a \in active'
  BY DEF StickInv
<1>3. CASE u = t
  <2>1. Tells(s, "stick")
    BY <1>3
  <2>2. c \in Named("press", active' \ active) \cup Named("release", active \ active')
    BY <2>1, <1>1, <1>3 DEF Tells, On
  <2>3. CASE c \in Named("press", active' \ active)
    <3>1. PICK x \in active' \ active : c = [edge |-> "press", a |-> x]
      BY <2>3 DEF Named
    <3> QED  BY <3>1
  <2>4. CASE c \in Named("release", active \ active')
    <3>1. PICK x \in active \ active' : c = [edge |-> "release", a |-> x]
      BY <2>4 DEF Named
    <3> QED  BY <3>1
  <2> QED  BY <2>2, <2>3, <2>4
<1>4. CASE u # t
  <2>1. c \in Uncounted(u) /\ SourceOf(u) = "stick"
    BY <1>1, <1>2, <1>4
  <2>2. calls[u] # NoCalls
    BY <2>1, NothingUncounted
  <2>3. active' = active
    BY <2>1, <2>2 DEF Excluded
  <2> QED  BY <2>1, <2>3 DEF StickInv
<1> QED  BY <1>3, <1>4

(* As long as no two have met, nobody else is in the handler.              *)
LEMMA BeginAlone ==
  ASSUME TypeOK, ThreadInv, AloneInv, MicInv, NEW t \in Threads, NEW s \in Seq(Call),
         Once(s), Begin(t, s), UNCHANGED <<count, tx, ptt>>
  PROVE  AloneInv' /\ MicInv'
<1>1. /\ calls[t] = NoCalls /\ at[t] = "next" /\ calls'[t] = s /\ at' = at
      /\ \A u \in Threads \ {t} : calls'[u] = calls[u]
  BY BeginUncounted
<1>2. /\ raced' = (raced \/ (s # NoCalls /\ \E u \in Threads \ {t} : calls[u] # NoCalls))
      /\ held' = held /\ owed' = owed /\ late' = late
  BY DEF Begin
<1>3. AloneInv'
  BY <1>1, <1>2 DEF AloneInv
<1>4. ASSUME ~raced', ~late' PROVE CountInv' /\ GateInv'
  <2>1. CountInv /\ GateInv
    BY <1>2, <1>4 DEF MicInv
  <2>2. CountInv'
    BY <2>1, <1>2 DEF CountInv
  <2>3. \A u \in Threads : at[u] # "next" => Now(u)' = Now(u)
    BY <1>1 DEF Now
  <2>4. GateInv'
    BY <2>1, <2>3, <1>1, <1>2 DEF GateInv
  <2> QED  BY <2>2, <2>4
<1> QED  BY <1>3, <1>4 DEF MicInv

(* All of it together.                                                     *)
LEMMA BeginKeeps ==
  ASSUME TypeOK, TypeOK', CallInv, NEW t \in Threads, NEW s \in Seq(Call),
         Once(s), Begin(t, s), t = "ui" \/ ui' = ui, UNCHANGED <<count, tx, ptt>>,
         NEW src \in Sources, src = SourceOf(t)', Tells(s, src),
         \A r \in Sources \ {src} : On(r)' = On(r), Excluded(t)
  PROVE  CallInv'
<1>1. ThreadInv'
  BY BeginUncounted DEF CallInv
<1>2. BalanceInv'
  BY BeginBalance DEF CallInv
<1>3. StickInv'
  BY BeginStick DEF CallInv
<1>4. AloneInv' /\ MicInv'
  BY BeginAlone DEF CallInv
<1> QED  BY <1>1, <1>2, <1>3, <1>4 DEF CallInv

(* Steps that make no calls and let go of nothing.                         *)
LEMMA QuietKeeps ==
  ASSUME TypeOK, CallInv, UNCHANGED <<calls, at, held, owed, raced, count, tx, ptt, active>>,
         Held' = Held, late => late', ui' = ui \/ calls["ui"] = NoCalls
  PROVE  CallInv'
<1>1. \A u \in Threads : Uncounted(u)' = Uncounted(u)
  BY DEF Uncounted
<1>2. \A u \in Threads : Uncounted(u) # {} => SourceOf(u)' = SourceOf(u)
  <2> TAKE u \in Threads
  <2>1. CASE u # "ui"
    BY <2>1 DEF SourceOf
  <2>2. CASE u = "ui"
    BY <2>2, NothingUncounted DEF SourceOf
  <2> QED  BY <2>1, <2>2
<1>3. ThreadInv'
  BY DEF ThreadInv, CallInv
<1>4. ASSUME NEW r \in Sources, NEW a \in Actions
      PROVE  Net(r, a)' = IF a \in On(r)' THEN 1 ELSE 0
  <2>1. On(r)' = On(r)
    BY DEF On
  <2>2. \A u \in Threads : \A e : Waiting(u, r, e, a)' = Waiting(u, r, e, a)
    BY <1>1, <1>2 DEF Waiting
  <2>3. \A e : AllWaiting(r, e, a)' = AllWaiting(r, e, a)
    BY <2>2 DEF AllWaiting, Threads
  <2> QED  BY <2>1, <2>3 DEF Net, CallInv, BalanceInv
<1>5. BalanceInv'
  BY <1>4 DEF BalanceInv
<1>6. StickInv'
  BY <1>1, <1>2 DEF StickInv, CallInv
<1>7. AloneInv'
  BY DEF AloneInv, CallInv
<1>8. ASSUME ~raced', ~late' PROVE CountInv' /\ GateInv'
  <2>1. CountInv /\ GateInv
    BY <1>8 DEF MicInv, CallInv
  <2>2. CountInv'
    BY <2>1 DEF CountInv
  <2>3. GateInv'
    BY <2>1 DEF GateInv, Now
  <2> QED  BY <2>2, <2>3
<1> QED  BY <1>3, <1>5, <1>6, <1>7, <1>8 DEF CallInv, MicInv

----------------------------------------------------------------------------
(* Inside the handler (pressed, released, txPress, txRelease, SetPTT).     *)

(* A step of the handler counts the call it is in, or moves on inside it.  *)
LEMMA HandlerMoves ==
  ASSUME TypeOK, ThreadInv, NEW t \in Threads, HandlerStep(t)
  PROVE  /\ calls[t] # NoCalls /\ UNCHANGED <<ui, active, raced, late, holds>>
         /\ calls'[t] = calls[t] \/ calls'[t] = Tail(calls[t])
         /\ \A u \in Threads \ {t} :
              /\ calls'[u] = calls[u] /\ at'[u] = at[u] /\ held'[u] = held[u]
              /\ Uncounted(u)' = Uncounted(u)
         /\ at'[t] # "next" => calls'[t] = calls[t]
         /\ Once(calls'[t])
         /\ Uncounted(t)' = Uncounted(t) \ (IF at[t] = "next" THEN {Now(t)} ELSE {})
         /\ Enter(t) <=> at[t] = "next"
         /\ Enter(t) => /\ Now(t) \in Uncounted(t)
                        /\ \A c \in Uncounted(t) : c.a = Now(t).a => c = Now(t)
         /\ \/ calls'[t] = calls[t] /\ notifyMu' = notifyMu
            \/ /\ calls'[t] = Tail(calls[t]) /\ at'[t] = "next"
               /\ notifyMu' = IF notifyMu = t /\ Len(calls[t]) = 1 THEN "free" ELSE notifyMu
<1>1. calls[t] # NoCalls /\ UNCHANGED <<ui, active, raced, late, holds>>
  BY DEF HandlerStep, Enter, TxPress, TxRelease, Gate, ThreadInv, joy, app, thr, uiv
<1>2. calls[t] \in Seq(Call) /\ Once(calls[t])
  BY DEF TypeOK, ThreadInv
<1>3. \/ /\ calls' = calls
         /\ \E s \in {"tx", "gate"} : at' = [at EXCEPT ![t] = s] /\ (s = "tx" => at[t] = "next")
         /\ held' = held \/ \E h \in BOOLEAN : held' = [held EXCEPT ![t] = h]
         /\ notifyMu' = notifyMu
      \/ Return(t)
  BY DEF HandlerStep, Enter, TxPress, TxRelease, Gate, Goes, joy
<1>4. Enter(t) <=> at[t] = "next"
  BY DEF HandlerStep, Enter, TxPress, TxRelease, Gate
<1>5. \A u \in Threads \ {t} : calls'[u] = calls[u] /\ at'[u] = at[u] /\ held'[u] = held[u]
  BY <1>3 DEF Return, TypeOK
<1>6. \A u \in Threads \ {t} : Uncounted(u)' = Uncounted(u)
  BY <1>5 DEF Uncounted
<1>7. \/ calls'[t] = calls[t] /\ at'[t] \in {"tx", "gate"} /\ notifyMu' = notifyMu
      \/ /\ calls'[t] = Tail(calls[t]) /\ at'[t] = "next"
         /\ notifyMu' = IF notifyMu = t /\ Len(calls[t]) = 1 THEN "free" ELSE notifyMu
  BY <1>3 DEF Return, TypeOK
<1>8. at[t] \in {"next", "tx", "gate"}
  BY DEF TypeOK
<1>9. Once(calls'[t])
  BY <1>1, <1>2, <1>7, RestAfter
<1>10. Uncounted(t)' = Rest(calls[t], "next") \ {Now(t)}
  BY <1>1, <1>2, <1>7, RestAfter DEF Uncounted, Now
<1>11. Uncounted(t) = IF at[t] = "next" THEN Rest(calls[t], "next")
                      ELSE Rest(calls[t], "next") \ {Now(t)}
  BY <1>1, <1>2, <1>8, RestAfter DEF Uncounted, Now
<1>12. Uncounted(t)' = Uncounted(t) \ (IF at[t] = "next" THEN {Now(t)} ELSE {})
  BY <1>10, <1>11
<1>13. Enter(t) => Now(t) \in Uncounted(t) /\ \A c \in Uncounted(t) : c.a = Now(t).a => c = Now(t)
  BY <1>1, <1>2, <1>4, <1>11, RestAfter DEF Now
<1> QED  BY <1>1, <1>4, <1>5, <1>6, <1>7, <1>9, <1>12, <1>13

(* What was counted is no longer on its way: the balance stands.           *)
LEMMA HandlerBalance ==
  ASSUME TypeOK, TypeOK', ThreadInv, BalanceInv, NEW t \in Threads, HandlerStep(t)
  PROVE  BalanceInv'
<1>1. /\ calls[t] # NoCalls /\ UNCHANGED <<ui, active>>
      /\ \A u \in Threads \ {t} : Uncounted(u)' = Uncounted(u)
      /\ Uncounted(t)' = Uncounted(t) \ (IF at[t] = "next" THEN {Now(t)} ELSE {})
      /\ Enter(t) <=> at[t] = "next"
      /\ Enter(t) => Now(t) \in Uncounted(t)
  BY HandlerMoves
<1>2. \A u \in Threads : SourceOf(u)' = SourceOf(u)
  BY <1>1 DEF SourceOf
<1>3. \A r \in Sources : On(r)' = On(r)
  BY <1>1 DEF On, Held, HandlerStep, Enter, TxPress, TxRelease, Gate, keyb
<1> SUFFICES ASSUME NEW r \in Sources, NEW a \in Actions
             PROVE  Net(r, a)' = IF a \in On(r)' THEN 1 ELSE 0
  BY DEF BalanceInv
<1>4. Net(r, a) = IF a \in On(r) THEN 1 ELSE 0
  BY DEF BalanceInv
<1>5. ASSUME NEW e
      PROVE  AllWaiting(r, e, a) \in Nat /\
             AllWaiting(r, e, a)' =
               AllWaiting(r, e, a) + Waiting(t, r, e, a)' - Waiting(t, r, e, a)
  <2>1. \A u \in Threads \ {t} : Waiting(u, r, e, a)' = Waiting(u, r, e, a)
    BY <1>1, <1>2 DEF Waiting
  <2> QED  BY <2>1, SumOfOne
<1>6. CASE at[t] # "next"
  <2>1. owed' = owed
    BY <1>1, <1>6 DEF HandlerStep, TxPress, TxRelease, Gate
  <2>2. \A e : Waiting(t, r, e, a)' = Waiting(t, r, e, a) /\ Waiting(t, r, e, a) \in {0, 1}
    BY <1>1, <1>2, <1>6 DEF Waiting
  <2>3. \A e : AllWaiting(r, e, a)' = AllWaiting(r, e, a)
    BY <2>2, <1>5
  <2> QED  BY <2>1, <2>3, <1>3, <1>4 DEF Net
<1>7. CASE at[t] = "next"
  <2>1. /\ Now(t) = [edge |-> Now(t).edge, a |-> Now(t).a]
        /\ Now(t).edge \in {"press", "release"} /\ SourceOf(t) \in Sources
    BY <1>1, NowType DEF Sources
  <2>2. owed'[r][a] = owed[r][a] + (IF r = SourceOf(t) /\ a = Now(t).a
                                    THEN IF Now(t).edge = "press" THEN 1 ELSE -1 ELSE 0)
    BY <1>1, <1>7, OwedMoves DEF Sources
  <2>3. ASSUME NEW e
        PROVE  AllWaiting(r, e, a)' = AllWaiting(r, e, a) -
                 (IF r = SourceOf(t) /\ Now(t) = [edge |-> e, a |-> a] THEN 1 ELSE 0)
    <3>1. Waiting(t, r, e, a)' - Waiting(t, r, e, a) =
            0 - (IF r = SourceOf(t) /\ Now(t) = [edge |-> e, a |-> a] THEN 1 ELSE 0)
      BY <1>1, <1>2, <1>7 DEF Waiting
    <3>2. Waiting(t, r, e, a)' \in {0, 1} /\ Waiting(t, r, e, a) \in {0, 1}
      BY DEF Waiting
    <3> QED  BY <3>1, <3>2, <1>5
  <2>4. owed[r][a] \in Int
    BY NetType
  <2>5. CASE r = SourceOf(t) /\ Now(t) = [edge |-> "press", a |-> a]
    <3>0. Now(t).edge = "press" /\ Now(t).a = a /\ Now(t) # [edge |-> "release", a |-> a]
      BY <2>5
    <3>1. /\ owed'[r][a] = owed[r][a] + 1
          /\ AllWaiting(r, "press", a)' = AllWaiting(r, "press", a) - 1
          /\ AllWaiting(r, "release", a)' = AllWaiting(r, "release", a) - 0
      BY <2>2, <2>3, <2>5, <3>0
    <3> QED  BY <3>1, <2>4, <1>3, <1>4, <1>5 DEF Net
  <2>6. CASE r = SourceOf(t) /\ Now(t) = [edge |-> "release", a |-> a]
    <3>0. Now(t).edge = "release" /\ Now(t).a = a /\ Now(t) # [edge |-> "press", a |-> a]
      BY <2>6
    <3>1. /\ owed'[r][a] = owed[r][a] + (-1)
          /\ AllWaiting(r, "press", a)' = AllWaiting(r, "press", a) - 0
          /\ AllWaiting(r, "release", a)' = AllWaiting(r, "release", a) - 1
      BY <2>2, <2>3, <2>6, <3>0
    <3> QED  BY <3>1, <2>4, <1>3, <1>4, <1>5 DEF Net
  <2>7. CASE ~(r = SourceOf(t) /\ a = Now(t).a)
    <3>1. /\ owed'[r][a] = owed[r][a] + 0
          /\ AllWaiting(r, "press", a)' = AllWaiting(r, "press", a) - 0
          /\ AllWaiting(r, "release", a)' = AllWaiting(r, "release", a) - 0
      BY <2>2, <2>3, <2>7
    <3> QED  BY <3>1, <2>4, <1>3, <1>4, <1>5 DEF Net
  <2>8. r = SourceOf(t) /\ a = Now(t).a =>
          Now(t) = [edge |-> "press", a |-> a] \/ Now(t) = [edge |-> "release", a |-> a]
    BY <2>1
  <2> QED  BY <2>5, <2>6, <2>7, <2>8
<1> QED  BY <1>6, <1>7

(* A call nobody else is in: the press count is never short of it.         *)
LEMMA AloneCounts ==
  ASSUME TypeOK, ThreadInv, BalanceInv, AloneInv, ~raced, NEW t \in Threads, Enter(t),
         Now(t) \in Uncounted(t), \A c \in Uncounted(t) : c.a = Now(t).a => c = Now(t),
         Now(t).edge = "release"
  PROVE  owed["key"][Now(t).a] + owed["stick"][Now(t).a] >= 1
<1>1. calls[t] # NoCalls
  BY DEF Enter
<1>2. \A u \in Threads \ {t} : Uncounted(u) = {}
  BY <1>1, NothingUncounted DEF AloneInv
<1>3. PICK a \in Actions : a = Now(t).a
  BY <1>1, NowType
<1>4. Now(t) = [edge |-> "release", a |-> a]
  BY <1>1, <1>3, NowType
<1>5. SourceOf(t) \in Sources
  BY <1>1, NowType DEF Sources
<1>6. \A u \in Threads \ {t} : \A r, e : Waiting(u, r, e, a) = 0
  BY <1>2 DEF Waiting
<1>7. \A r, e : AllWaiting(r, e, a) = Waiting(t, r, e, a)
  <2> TAKE r, e
  <2>1. Waiting(t, r, e, a) \in {0, 1}
    BY DEF Waiting
  <2> QED  BY <2>1, <1>6 DEF AllWaiting, Threads
<1>8. \A r \in Sources : Waiting(t, r, "press", a) = 0
  <2>1. [edge |-> "press", a |-> a] \notin Uncounted(t)
    BY <1>3, <1>4
  <2> QED  BY <2>1 DEF Waiting
<1>9. \A r \in Sources : Waiting(t, r, "release", a) = IF r = SourceOf(t) THEN 1 ELSE 0
  BY <1>4 DEF Waiting
<1>10. ASSUME NEW r \in Sources
       PROVE  owed[r][a] \in Int /\ owed[r][a] >= IF r = SourceOf(t) THEN 1 ELSE 0
  <2>1. Net(r, a) = IF a \in On(r) THEN 1 ELSE 0
    BY DEF BalanceInv
  <2>2. Net(r, a) = owed[r][a] + 0 - (IF r = SourceOf(t) THEN 1 ELSE 0)
    BY <1>7, <1>8, <1>9 DEF Net
  <2>3. owed[r][a] \in Int
    BY NetType
  <2> QED  BY <2>1, <2>2, <2>3
<1>11. \A r \in {"key", "stick"} :
         owed[r][a] \in Int /\ owed[r][a] >= IF r = SourceOf(t) THEN 1 ELSE 0
  BY <1>10 DEF Sources
<1>12. SourceOf(t) = "key" \/ SourceOf(t) = "stick"
  BY <1>5 DEF Sources
<1> QED  BY <1>3, <1>11, <1>12

(* The press count and the gate, as long as nobody else is in the handler. *)
LEMMA HandlerMic ==
  ASSUME TypeOK, TypeOK', ThreadInv, BalanceInv, AloneInv, LateInv, MicInv,
         NEW t \in Threads, HandlerStep(t)
  PROVE  MicInv'
<1>1. /\ calls[t] # NoCalls /\ UNCHANGED <<raced, late, holds>>
      /\ \A u \in Threads \ {t} : at'[u] = at[u]
      /\ at'[t] # "next" => calls'[t] = calls[t]
      /\ Enter(t) <=> at[t] = "next"
      /\ Enter(t) => Now(t) \in Uncounted(t) /\ \A c \in Uncounted(t) : c.a = Now(t).a => c = Now(t)
  BY HandlerMoves
<1> SUFFICES ASSUME ~raced, ~late PROVE CountInv' /\ GateInv'
  BY <1>1 DEF MicInv
<1>2. CountInv /\ GateInv
  BY DEF MicInv
<1>3. \A u \in Threads \ {t} : at[u] = "next" /\ at'[u] = "next"
  BY <1>1 DEF AloneInv, ThreadInv
<1>4. PICK c : c = Now(t)
  OBVIOUS
<1>5. c.a \in Actions /\ c.edge \in {"press", "release"}
  BY <1>1, <1>4, NowType
<1>6. at'[t] # "next" => Now(t)' = c
  BY <1>1, <1>4 DEF Now
<1>7. CASE Enter(t)
  <2>1. at[t] = "next" /\ c.a \in holds
    BY <1>1, <1>4, <1>7 DEF LateInv
  <2>2. count' = [count EXCEPT ![c.a] = Counted(c)] /\ tx' = tx /\ ptt' = ptt
    BY <1>4, <1>7 DEF Enter
  <2>3. \A b \in Actions : count[b] \in Nat /\ count'[b] \in Nat
    BY DEF TypeOK
  <2>4. c.edge = "release" => count[c.a] >= 1
    BY <1>1, <1>2, <1>4, <1>5, <1>7, AloneCounts DEF CountInv
  <2>5. PICK d \in {1, -1} : d = IF c.edge = "press" THEN 1 ELSE -1
    OBVIOUS
  <2>6. Counted(c) = count[c.a] + d
    BY <2>1, <2>3, <2>4, <2>5, <1>5 DEF Counted
  <2>7. \A b \in Actions : count'[b] = count[b] + (IF b = c.a THEN d ELSE 0)
    <3>1. count'[c.a] = count[c.a] + d
      BY <2>2, <2>6, <1>5 DEF TypeOK
    <3>2. \A b \in Actions \ {c.a} : count'[b] = count[b]
      BY <2>2 DEF TypeOK
    <3> QED  BY <3>1, <3>2, <2>3
  <2>8. CountInv'
    <3> SUFFICES ASSUME NEW b \in Actions
                 PROVE  count'[b] = owed'["key"][b] + owed'["stick"][b]
      BY DEF CountInv
    <3>1. count[b] = owed["key"][b] + owed["stick"][b]
      BY <1>2 DEF CountInv
    <3>2. owed["key"][b] \in Int /\ owed["stick"][b] \in Int
      BY DEF TypeOK
    <3>3. SourceOf(t) \in {"key", "stick"}
      BY <1>1, NowType
    <3>4. \A r \in {"key", "stick"} :
            owed'[r][b] = owed[r][b] + (IF r = SourceOf(t) /\ b = c.a THEN d ELSE 0)
      BY <1>1, <1>4, <1>7, <2>5, OwedMoves
    <3>5. owed'["key"][b] + owed'["stick"][b] =
            owed["key"][b] + owed["stick"][b] + (IF b = c.a THEN d ELSE 0)
      BY <3>2, <3>3, <3>4, <2>5
    <3> QED  BY <3>1, <3>5, <2>7
  <2>9. \A b \in Actions : b \in tx <=> count[b] > 0
    BY <1>2, <1>3, <2>1 DEF GateInv
  <2>10. at'[t] = IF FirstOrLast(c) THEN "tx" ELSE "next"
    BY <1>4, <1>7 DEF Enter, Goes, Return, TypeOK
  <2>11. \A b \in Actions : b # c.a => (b \in tx' <=> count'[b] > 0)
    <3> TAKE b \in Actions
    <3> HAVE b # c.a
    <3>1. count'[b] = count[b]
      BY <2>3, <2>7
    <3> QED  BY <3>1, <2>2, <2>9
  <2>12. CASE FirstOrLast(c)
    <3>1. at'[t] = "tx" /\ Now(t)' = c
      BY <2>10, <2>12, <1>6
    <3>2. c.edge = "press" => count'[c.a] > 0
      BY <2>3, <2>5, <2>7, <1>5
    <3>3. c.edge = "release" => ~(count'[c.a] > 0)
      <4>1. c.edge = "release" => count[c.a] = 1 /\ d = -1
        BY <2>1, <2>5, <2>12, <1>5 DEF FirstOrLast
      <4> QED  BY <4>1, <2>7, <1>5
    <3>4. c.edge = "press" <=> count'[c.a] > 0
      BY <3>2, <3>3, <1>5
    <3>5. \A u \in Threads : at'[u] # "gate"
      BY <3>1, <1>3
    <3>6. ptt' <=> tx' # {}
      BY <2>1, <2>2, <1>2, <1>3 DEF GateInv
    <3>7. \A b \in Actions :
            (\A u \in Threads : at'[u] = "tx" => Now(u)'.a # b) => (b \in tx' <=> count'[b] > 0)
      BY <3>1, <2>11
    <3>8. \A u \in Threads : at'[u] = "tx" => u = t
      BY <1>3
    <3>9. GateInv'
      BY <3>1, <3>4, <3>5, <3>6, <3>7, <3>8 DEF GateInv
    <3> QED  BY <3>9, <2>8
  <2>13. CASE ~FirstOrLast(c)
    <3>1. \A u \in Threads : at'[u] = "next"
      BY <2>10, <2>13, <1>3
    <3>2. count[c.a] > 0 /\ count'[c.a] > 0
      <4>1. c.edge = "press" => count[c.a] # 0
        BY <2>13 DEF FirstOrLast
      <4>2. c.edge = "release" => count[c.a] # 1
        BY <2>13 DEF FirstOrLast
      <4> QED  BY <4>1, <4>2, <2>3, <2>4, <2>5, <2>7, <1>5
    <3>3. \A b \in Actions : b \in tx' <=> count'[b] > 0
      BY <3>2, <2>2, <2>9, <2>11
    <3>4. ptt' <=> tx' # {}
      BY <2>1, <2>2, <1>2, <1>3 DEF GateInv
    <3>5. GateInv'
      BY <3>1, <3>3, <3>4 DEF GateInv
    <3> QED  BY <3>5, <2>8
  <2> QED  BY <2>12, <2>13
<1>8. CASE TxPress(t)
  <2>1. /\ at[t] = "tx" /\ c.edge = "press" /\ tx' = tx \cup {c.a} /\ at'[t] = "gate"
        /\ UNCHANGED <<count, ptt, owed>>
    BY <1>4, <1>8 DEF TxPress, Goes, TypeOK
  <2>2. count[c.a] > 0
    BY <2>1, <1>2, <1>4 DEF GateInv
  <2>3. \A b \in Actions : b # c.a => (b \in tx <=> count[b] > 0)
    BY <2>1, <1>2, <1>3, <1>4 DEF GateInv
  <2>4. \A b \in Actions : b \in tx' <=> count'[b] > 0
    BY <2>1, <2>2, <2>3
  <2>5. tx' # {} /\ Now(t)' = c
    BY <2>1, <1>6
  <2>6. \A u \in Threads : at'[u] # "tx" /\ (at'[u] = "gate" => u = t)
    BY <2>1, <1>3
  <2>7. GateInv'
    BY <2>1, <2>4, <2>5, <2>6 DEF GateInv
  <2> QED  BY <2>1, <2>7, <1>2 DEF CountInv
<1>9. CASE TxRelease(t)
  <2>1. /\ at[t] = "tx" /\ c.edge = "release" /\ tx' = tx \ {c.a} /\ at'[t] = "gate"
        /\ UNCHANGED <<count, ptt, owed>>
    BY <1>4, <1>9 DEF TxRelease, TypeOK, app
  <2>2. held'[t] <=> tx' # {}
    BY <1>9 DEF TxRelease, TypeOK
  <2>3. ~(count[c.a] > 0)
    BY <2>1, <1>2, <1>4 DEF GateInv
  <2>4. \A b \in Actions : b # c.a => (b \in tx <=> count[b] > 0)
    BY <2>1, <1>2, <1>3, <1>4 DEF GateInv
  <2>5. \A b \in Actions : b \in tx' <=> count'[b] > 0
    BY <2>1, <2>3, <2>4
  <2>6. Now(t)' = c
    BY <2>1, <1>6
  <2>7. \A u \in Threads : at'[u] # "tx" /\ (at'[u] = "gate" => u = t)
    BY <2>1, <1>3
  <2>8. GateInv'
    BY <2>1, <2>2, <2>5, <2>6, <2>7 DEF GateInv
  <2> QED  BY <2>1, <2>8, <1>2 DEF CountInv
<1>10. CASE Gate(t)
  <2>1. /\ at[t] = "gate" /\ ptt' = (c.edge = "press" \/ held[t]) /\ at'[t] = "next"
        /\ UNCHANGED <<count, tx, owed>>
    BY <1>4, <1>10 DEF Gate, Return, TypeOK
  <2>2. ptt' <=> tx' # {}
    BY <2>1, <1>2, <1>4 DEF GateInv
  <2>3. \A b \in Actions : b \in tx' <=> count'[b] > 0
    BY <2>1, <1>2, <1>3 DEF GateInv
  <2>4. \A u \in Threads : at'[u] = "next"
    BY <2>1, <1>3
  <2>5. GateInv'
    BY <2>2, <2>3, <2>4 DEF GateInv
  <2> QED  BY <2>1, <2>5, <1>2 DEF CountInv
<1> QED  BY <1>7, <1>8, <1>9, <1>10 DEF HandlerStep

(* All of it together.                                                     *)
LEMMA HandlerKeeps ==
  ASSUME IInv, TypeOK', NEW t \in Threads, HandlerStep(t)
  PROVE  CallInv' /\ NotifyInv' /\ LateInv' /\ RebindInv' /\ KeyboardInv'
<1> USE DEF IInv, CallInv
<1>1. /\ calls[t] # NoCalls /\ UNCHANGED <<ui, active, raced, late, holds>>
      /\ calls'[t] = calls[t] \/ calls'[t] = Tail(calls[t])
      /\ \A u \in Threads \ {t} :
           /\ calls'[u] = calls[u] /\ at'[u] = at[u] /\ Uncounted(u)' = Uncounted(u)
      /\ at'[t] # "next" => calls'[t] = calls[t]
      /\ Once(calls'[t])
      /\ Uncounted(t)' = Uncounted(t) \ (IF at[t] = "next" THEN {Now(t)} ELSE {})
      /\ \/ calls'[t] = calls[t] /\ notifyMu' = notifyMu
         \/ /\ calls'[t] = Tail(calls[t])
            /\ notifyMu' = IF notifyMu = t /\ Len(calls[t]) = 1 THEN "free" ELSE notifyMu
  BY HandlerMoves
<1>2. UNCHANGED <<keyb, jbinds, jmSuspended, registry>>
  BY DEF HandlerStep, Enter, TxPress, TxRelease, Gate, joy, uiv
<1>3. \A u \in Threads : Uncounted(u)' \subseteq Uncounted(u) /\ SourceOf(u)' = SourceOf(u)
  BY <1>1 DEF SourceOf
<1>4. \A u \in Threads : calls'[u] # NoCalls => calls[u] # NoCalls
  BY <1>1
<1>5. ThreadInv'
  BY <1>1 DEF ThreadInv
<1>6. StickInv'
  BY <1>1, <1>3 DEF StickInv
<1>7. AloneInv'
  BY <1>1, <1>4 DEF AloneInv
<1>8. BalanceInv' /\ MicInv'
  BY HandlerBalance, HandlerMic
<1>9. LateInv'
  BY <1>1, <1>3 DEF LateInv
<1>10. RebindInv' /\ KeyboardInv'
  BY <1>1, <1>2 DEF RebindInv, KeyboardInv, Held, keyb
<1>11. Len(calls[t]) = 1 => Tail(calls[t]) = NoCalls
  <2>1. calls[t] \in Seq(Call)
    BY DEF TypeOK
  <2> QED  BY <2>1, OneLeft
<1>12. \A u \in Threads : calls'[u] # NoCalls /\ notifyMu = u => notifyMu' = u
  BY <1>1, <1>11
<1>13. NotifyInv'
  BY <1>1, <1>2, <1>4, <1>12 DEF NotifyInv, Threads
<1> QED  BY <1>5, <1>6, <1>7, <1>8, <1>9, <1>10, <1>13

----------------------------------------------------------------------------
(* The dispatcher and the joystick manager leave their locks.              *)

(* What is told of an action its source knows is told while it is a hold.  *)
LEMMA BeginLate ==
  ASSUME TypeOK, ThreadInv, LateInv, RebindInv, NEW t \in Threads, NEW s \in Seq(Call), Once(s),
         Begin(t, s), holds' = holds, \A c \in Rest(s, "next") : c.a \in binds \cup jbinds
  PROVE  LateInv'
<1>1. /\ Uncounted(t)' = Rest(s, "next")
      /\ \A u \in Threads \ {t} : Uncounted(u)' = Uncounted(u)
  BY BeginUncounted
<1>2. late' = late
  BY DEF Begin
<1> QED  BY <1>1, <1>2 DEF LateInv, RebindInv

(* Calls of the keyboard's (handle, takeLatchLocked).                      *)
LEMMA KeyBegins ==
  ASSUME IInv, TypeOK', NEW t \in Threads, NEW s \in Seq(Call), Once(s), Begin(t, s),
         t = "ui" \/ ui' = ui, SourceOf(t)' = "key", UNCHANGED <<joy, app>>,
         Tells(s, "key"), \A c \in Rest(s, "next") : c.a \in binds
  PROVE  CallInv' /\ NotifyInv' /\ LateInv'
<1> USE DEF IInv, CallInv
<1>1. UNCHANGED <<active, jbinds, notifyMu, holds, count, tx, ptt>>
  BY DEF joy, app
<1>2. "key" \in Sources /\ (\A r \in Sources \ {"key"} : On(r)' = On(r)) /\ Excluded(t)
  BY <1>1 DEF Sources, On, Excluded
<1>3. CallInv'
  BY <1>1, <1>2, BeginKeeps
<1>4. LateInv'
  BY <1>1, BeginLate
<1>5. \A u \in Threads \ {t} : calls'[u] = calls[u]
  BY BeginUncounted
<1>6. t # "poll" /\ (t = "ui" => ui' \notin {"holds", "idle"})
  BY DEF SourceOf
<1>7. NotifyInv'
  BY <1>1, <1>5, <1>6 DEF NotifyInv, Threads
<1> QED  BY <1>3, <1>4, <1>7

(* Calls of the joystick's, which notifyMu keeps apart (tick, Suspend).    *)
LEMMA StickBegins ==
  ASSUME IInv, TypeOK', NEW t \in {"poll", "ui"}, NEW s \in Seq(Call), Once(s), TakeNotify(t, s),
         t = "ui" \/ ui' = ui, SourceOf(t)' = "stick", UNCHANGED app, Held' = Held,
         Tells(s, "stick"), \A c \in Rest(s, "next") : c.a \in jbinds, active' \subseteq jbinds'
  PROVE  CallInv' /\ NotifyInv' /\ LateInv'
<1> USE DEF IInv, CallInv
<1>1. /\ t \in Threads /\ Begin(t, s) /\ notifyMu = "free"
      /\ notifyMu' = IF s = NoCalls THEN "free" ELSE t
      /\ UNCHANGED <<holds, count, tx, ptt>>
  BY DEF TakeNotify, Threads, app
<1>2. "stick" \in Sources /\ \A r \in Sources \ {"stick"} : On(r)' = On(r)
  BY DEF Sources, On
<1>3. Excluded(t)
  BY <1>1 DEF Excluded, NotifyInv, SourceOf
<1>4. CallInv'
  BY <1>1, <1>2, <1>3, BeginKeeps
<1>5. LateInv'
  BY <1>1, BeginLate
<1>6. calls'[t] = s /\ \A u \in Threads \ {t} : calls'[u] = calls[u]
  BY <1>1, BeginUncounted
<1>7. NotifyInv'
  BY <1>1, <1>6 DEF NotifyInv, Threads
<1> QED  BY <1>4, <1>5, <1>7

(* Latches are taken: the Released each one owes is on its way.            *)
LEMMA TakeKeeps ==
  ASSUME IInv, TypeOK', NEW t \in Threads, NEW S, TakeLatches(t, S),
         t = "ui" \/ ui' = ui, SourceOf(t)' = "key", UNCHANGED <<joy, app>>
  PROVE  CallInv' /\ NotifyInv' /\ LateInv' /\ Held' = Held \ S
<1>1. Held' = Held \ S
  BY DEF Held, TakeLatches
<1>2. Held \subseteq binds
  BY DEF IInv, KeyboardInv
<1>3. Held \cap S \in SUBSET Actions /\ Held \cap S \cap binds = Held \cap S
  BY <1>2 DEF Held, Actions
<1> DEFINE s == Edges("release", Held \cap S)
<1>4. s \in Seq(Call) /\ Once(s) /\ Rest(s, "next") = Named("release", Held \cap S)
  BY <1>3, EdgesName
<1>5. Begin(t, s)
  BY <1>3 DEF TakeLatches
<1> HIDE DEF s
<1>6. Tells(s, "key")
  <2>1. Held' \ Held = {} /\ Held \ Held' = Held \cap S
    BY <1>1
  <2> QED  BY <1>4, <2>1 DEF Tells, On, Named
<1>7. \A c \in Rest(s, "next") : c.a \in binds
  BY <1>2, <1>4 DEF Named
<1>8. CallInv' /\ NotifyInv' /\ LateInv'
  BY <1>4, <1>5, <1>6, <1>7, KeyBegins
<1> QED  BY <1>1, <1>8

(* Every button that is active is released (Apply, Suspend).               *)
LEMMA TakeActive ==
  ASSUME IInv, TypeOK', TakeNotify("ui", Edges("release", active \cap jbinds)),
         active' = active \ jbinds, SourceOf("ui")' = "stick", UNCHANGED app, Held' = Held
  PROVE  CallInv' /\ NotifyInv' /\ LateInv'
<1>1. active \subseteq jbinds /\ active \cap jbinds = active /\ active' = {}
  BY DEF IInv, NotifyInv
<1>2. active \in SUBSET Actions
  BY DEF IInv, TypeOK, Actions
<1> DEFINE s == Edges("release", active)
<1>3. s \in Seq(Call) /\ Once(s) /\ Rest(s, "next") = Named("release", active)
  BY <1>2, EdgesName
<1>4. TakeNotify("ui", s)
  BY <1>1
<1> HIDE DEF s
<1>5. Tells(s, "stick")
  <2>1. active' \ active = {} /\ active \ active' = active
    BY <1>1
  <2> QED  BY <1>3, <2>1 DEF Tells, On, Named
<1>6. \A c \in Rest(s, "next") : c.a \in jbinds
  BY <1>1, <1>3 DEF Named
<1>7. active' \subseteq jbinds'
  BY <1>1
<1> QED  BY <1>3, <1>4, <1>5, <1>6, <1>7, StickBegins

(* One poll tells of every bound button that changed.                      *)
LEMMA TickKeeps ==
  ASSUME IInv, TypeOK', Tick
  PROVE  CallInv' /\ NotifyInv' /\ LateInv'
<1> DEFINE want == btnDown \cap jbinds
<1>1. /\ TakeNotify("poll", Edges("press", want \ active) \o
                            Edges("release", (active \ want) \cap jbinds))
      /\ active' = want /\ UNCHANGED <<keyb, jbinds, app, uiv>>
  BY DEF Tick
<1>2. active \subseteq jbinds /\ (active \ want) \cap jbinds = active \ want
  BY DEF IInv, NotifyInv
<1>3. want \ active \in SUBSET Actions /\ active \ want \in SUBSET Actions
  BY DEF IInv, TypeOK, Actions
<1> DEFINE s == Edges("press", want \ active) \o Edges("release", active \ want)
<1>4. /\ s \in Seq(Call) /\ Once(s)
      /\ Rest(s, "next") = Named("press", want \ active) \cup Named("release", active \ want)
  <2>1. (want \ active) \cap (active \ want) = {}
    OBVIOUS
  <2> QED  BY <1>3, <2>1, EdgesJoin
<1>5. TakeNotify("poll", s)
  BY <1>1, <1>2
<1>6. want \subseteq jbinds
  OBVIOUS
<1> HIDE DEF s, want
<1>7. Tells(s, "stick")
  BY <1>1, <1>4 DEF Tells, On
<1>8. \A c \in Rest(s, "next") : c.a \in jbinds
  BY <1>2, <1>4, <1>6 DEF Named
<1>9. active' \subseteq jbinds' /\ Held' = Held /\ ui' = ui /\ SourceOf("poll")' = "stick"
  BY <1>1, <1>6 DEF Held, keyb, uiv, SourceOf
<1> QED  BY <1>1, <1>4, <1>5, <1>7, <1>8, <1>9, StickBegins

(* A key that goes down sets its latch and tells of it (handle).           *)
LEMMA DownKeeps ==
  ASSUME IInv, TypeOK', NEW a \in Keyed, KeyDown(a)
  PROVE  CallInv' /\ NotifyInv' /\ LateInv' /\ Held' \subseteq Held \cup ({a} \cap binds)
<1>1. UNCHANGED <<joy, app, uiv, binds, hkSuspended>> /\ ui' = ui
  BY DEF KeyDown, uiv
<1>2. SourceOf("hook")' = "key" /\ "hook" \in Threads
  BY DEF SourceOf, Threads
<1>3. CASE a \in binds /\ latched[a] = 0 /\ SetLatch(a) /\ Begin("hook", Edges("press", {a}))
  <2>1. {a} \in SUBSET Actions
    BY DEF Actions
  <2> DEFINE s == Edges("press", {a})
  <2>2. s \in Seq(Call) /\ Once(s) /\ Rest(s, "next") = Named("press", {a})
    BY <2>1, EdgesName
  <2> HIDE DEF s
  <2>3. latched' = [latched EXCEPT ![a] = gen + 1] /\ gen + 1 # 0
    BY <1>3 DEF SetLatch, IInv, TypeOK
  <2>4. Held' = Held \cup {a} /\ a \notin Held
    BY <1>3, <2>3 DEF Held, IInv, TypeOK
  <2>5. Tells(s, "key")
    <3>1. Held' \ Held = {a} /\ Held \ Held' = {}
      BY <2>4
    <3> QED  BY <2>2, <3>1 DEF Tells, On, Named
  <2>6. \A c \in Rest(s, "next") : c.a \in binds
    BY <1>3, <2>2 DEF Named
  <2>7. Begin("hook", s)
    BY <1>3 DEF s
  <2>8. CallInv' /\ NotifyInv' /\ LateInv'
    BY <1>1, <1>2, <2>2, <2>5, <2>6, <2>7, KeyBegins
  <2> QED  BY <2>4, <2>8, <1>3
<1>4. CASE Begin("hook", NoCalls) /\ UNCHANGED <<latched, gen>>
  <2>1. NoCalls \in Seq(Call) /\ Once(NoCalls) /\ Rest(NoCalls, "next") = {}
    BY DEF NoCalls, Once, Rest
  <2>2. Held' = Held
    BY <1>4 DEF Held
  <2>3. Tells(NoCalls, "key")
    BY <2>1, <2>2 DEF Tells, On, Named
  <2>4. CallInv' /\ NotifyInv' /\ LateInv'
    BY <1>1, <1>2, <1>4, <2>1, <2>3, KeyBegins
  <2> QED  BY <2>2, <2>4
<1> QED  BY <1>3, <1>4 DEF KeyDown

(* Steps that make no calls: the rebind's and the capture's own, the user's *)
(* and the watchdogs'.                                                     *)
LEMMA QuietSteps ==
  ASSUME IInv, TypeOK', UNCHANGED <<calls, at, held, owed, raced, count, tx, ptt, active, notifyMu>>,
         Held' = Held, ui' = ui \/ calls["ui"] = NoCalls,
         \/ UNCHANGED <<late, holds>>
         \/ holds \subseteq holds' /\ late' = late
         \/ late' = (late \/ \E t \in Threads : \E c \in Uncounted(t) : c.a \notin holds'),
         jbinds' = jbinds
  PROVE  CallInv' /\ NotifyInv' /\ LateInv'
<1>1. late => late'
  OBVIOUS
<1>2. CallInv'
  BY <1>1, QuietKeeps DEF IInv
<1>3. NotifyInv'
  BY DEF IInv, NotifyInv
<1>4. \A t \in Threads : Uncounted(t)' = Uncounted(t)
  BY DEF Uncounted
<1>5. LateInv'
  <2>1. CASE UNCHANGED <<late, holds>>
    BY <1>4, <2>1 DEF IInv, LateInv
  <2>2. CASE late' = (late \/ \E t \in Threads : \E c \in Uncounted(t) : c.a \notin holds')
    BY <1>4, <2>2 DEF LateInv
  <2>3. CASE holds \subseteq holds' /\ late' = late
    BY <1>4, <2>3 DEF IInv, LateInv
  <2> QED  BY <2>1, <2>2, <2>3
<1> QED  BY <1>2, <1>3, <1>5

(* Every step keeps the invariant.                                         *)
LEMMA InvariantNext == IInv /\ [Next]_vars => IInv'
<1> SUFFICES ASSUME IInv, [Next]_vars PROVE IInv'
  OBVIOUS
<1>1. TypeOK'
  BY TypeNext DEF IInv, CallInv
<1> DEFINE Goal == CallInv' /\ NotifyInv' /\ LateInv' /\ RebindInv' /\ KeyboardInv'
<1> SUFFICES Goal
  BY <1>1 DEF IInv
<1>2. KeyboardInv /\ RebindInv /\ TypeOK
  BY DEF IInv
<1> HIDE DEF Goal
<1>3. ASSUME NEW a \in Keyed, KeyDown(a) PROVE Goal
  <2>1. CallInv' /\ NotifyInv' /\ LateInv' /\ Held' \subseteq Held \cup ({a} \cap binds)
    BY <1>1, <1>3, DownKeeps
  <2>2. UNCHANGED <<jbinds, holds, registry, ui, binds, hkSuspended>>
    BY <1>3 DEF KeyDown, joy, app, uiv
  <2> QED  BY <1>2, <2>1, <2>2 DEF KeyboardInv, RebindInv, Goal
<1>4. ASSUME NEW a \in Keyed, KeyUp(a) PROVE Goal
  <2>1. /\ TakeLatches("hook", {a} \cap binds) /\ UNCHANGED <<joy, app, uiv>>
        /\ UNCHANGED <<jbinds, holds, registry, ui, binds, hkSuspended>>
    BY <1>4 DEF KeyUp, joy, app, uiv
  <2>2. SourceOf("hook")' = "key" /\ "hook" \in Threads
    BY DEF SourceOf, Threads
  <2>3. CallInv' /\ NotifyInv' /\ LateInv' /\ Held' \subseteq Held
    BY <1>1, <2>1, <2>2, TakeKeeps
  <2> QED  BY <1>2, <2>1, <2>3 DEF KeyboardInv, RebindInv, Goal
<1>5. ASSUME StreamDies PROVE Goal
  <2>1. /\ TakeLatches("hook", Keyed) /\ UNCHANGED <<joy, app, uiv>>
        /\ UNCHANGED <<jbinds, holds, registry, ui, binds, hkSuspended>>
    BY <1>5 DEF StreamDies, joy, app, uiv
  <2>2. SourceOf("hook")' = "key" /\ "hook" \in Threads
    BY DEF SourceOf, Threads
  <2>3. CallInv' /\ NotifyInv' /\ LateInv' /\ Held' \subseteq Held
    BY <1>1, <2>1, <2>2, TakeKeeps
  <2> QED  BY <1>2, <2>1, <2>3 DEF KeyboardInv, RebindInv, Goal
<1>6. ASSUME NEW a \in Keyed, NEW g \in fired[a], ForceRelease(a, g) PROVE Goal
  <2>1. /\ UNCHANGED <<joy, app, uiv>>
        /\ UNCHANGED <<jbinds, holds, registry, ui, binds, hkSuspended>>
    BY <1>6 DEF ForceRelease, joy, app, uiv
  <2>2. SourceOf("dog")' = "key" /\ "dog" \in Threads
    BY DEF SourceOf, Threads
  <2>3. PICK S : TakeLatches("dog", S)
    BY <1>6 DEF ForceRelease
  <2>4. CallInv' /\ NotifyInv' /\ LateInv' /\ Held' \subseteq Held
    BY <1>1, <2>1, <2>2, <2>3, TakeKeeps
  <2> QED  BY <1>2, <2>1, <2>4 DEF KeyboardInv, RebindInv, Goal
<1>7. ASSUME \/ \E a \in Keyed : KeyUpLost(a) \/ Expire(a)
             \/ \E a \in Stick : ButtonDown(a) \/ ButtonUp(a)
      PROVE  Goal
  <2>1. UNCHANGED <<binds, latched, hkSuspended, joy, app, thr, uiv>>
    BY <1>7 DEF KeyUpLost, Expire, ButtonDown, ButtonUp, keyb
  <2>2. /\ UNCHANGED <<calls, at, held, owed, raced, late, count, tx, ptt, active, notifyMu>>
        /\ UNCHANGED <<jbinds, holds, registry, ui>> /\ Held' = Held
    BY <2>1 DEF joy, app, thr, uiv, Held
  <2>3. CallInv' /\ NotifyInv' /\ LateInv'
    BY <1>1, <2>2, QuietSteps
  <2> QED  BY <1>2, <2>1, <2>2, <2>3 DEF KeyboardInv, RebindInv, Goal
<1>8. ASSUME Tick PROVE Goal
  <2>1. UNCHANGED <<binds, latched, hkSuspended, jbinds, holds, registry, ui>> /\ Held' = Held
    BY <1>8 DEF Tick, keyb, app, uiv, Held
  <2>2. CallInv' /\ NotifyInv' /\ LateInv'
    BY <1>1, <1>8, TickKeeps
  <2> QED  BY <1>2, <2>1, <2>2 DEF KeyboardInv, RebindInv, Goal
<1>9. ASSUME NEW R \in {Actions, Actions \ Transient}, StartApply(R) PROVE Goal
  <2>1. /\ calls["ui"] = NoCalls /\ ui' = "clear" /\ registry' = R /\ holds' = holds \cup R
        /\ UNCHANGED <<binds, latched, hkSuspended, joy, count, tx, ptt, thr>>
    BY <1>9 DEF StartApply, UiIs, UnionHolds, keyb
  <2>2. /\ UNCHANGED <<calls, at, held, owed, raced, late, count, tx, ptt, active, notifyMu, jbinds>>
        /\ Held' = Held
    BY <2>1 DEF joy, thr, Held
  <2>3. CallInv' /\ NotifyInv' /\ LateInv'
    BY <1>1, <2>1, <2>2, QuietSteps
  <2> QED  BY <1>2, <2>1, <2>2, <2>3 DEF KeyboardInv, RebindInv, Goal
<1>10. ASSUME Suspend \/ ApplyClears PROVE Goal
  <2>1. /\ TakeLatches("ui", Keyed) /\ binds' = {} /\ ui' \in {"suspend", "register"}
        /\ UNCHANGED <<joy, app, jbinds, holds, registry>>
        /\ (ui' = "register" => ~hkSuspended')
    BY <1>10 DEF Suspend, ApplyClears, UiIs, Clear, joy, app
  <2>2. SourceOf("ui")' = "key" /\ "ui" \in Threads
    BY <2>1 DEF SourceOf, Threads
  <2>3. CallInv' /\ NotifyInv' /\ LateInv' /\ Held' = Held \ Keyed
    BY <1>1, <2>1, <2>2, TakeKeeps
  <2>4. Held' = {}
    BY <2>3 DEF Held
  <2> QED  BY <1>2, <2>1, <2>3, <2>4 DEF KeyboardInv, RebindInv, Goal
<1>11. ASSUME ApplyRecords PROVE Goal
  <2>1. /\ calls["ui"] = NoCalls /\ ui' = "stick" /\ hkSuspended
        /\ UNCHANGED <<binds, latched, hkSuspended, joy, app, thr, registry>>
    BY <1>11 DEF ApplyRecords, UiIs, keyb
  <2>2. /\ UNCHANGED <<calls, at, held, owed, raced, late, holds, count, tx, ptt, active, notifyMu, jbinds>>
        /\ Held' = Held
    BY <2>1 DEF joy, app, thr, Held
  <2>3. CallInv' /\ NotifyInv' /\ LateInv'
    BY <1>1, <2>1, <2>2, QuietSteps
  <2> QED  BY <1>2, <2>1, <2>2, <2>3 DEF KeyboardInv, RebindInv, Goal
<1>12. ASSUME Register \/ Resume PROVE Goal
  <2>1. /\ calls["ui"] = NoCalls /\ ui' \in {"stick", "resume"} /\ binds' = Keyed \cap registry
        /\ hkSuspended \/ (ui = "register" /\ ~hkSuspended')
        /\ ui' = "stick" => hkSuspended' = hkSuspended
        /\ ui' = "resume" => hkSuspended' = FALSE
        /\ UNCHANGED <<latched, joy, app, thr, registry>>
    BY <1>2, <1>12 DEF Register, Resume, UiIs, KeyboardInv
  <2>2. /\ UNCHANGED <<calls, at, held, owed, raced, late, holds, count, tx, ptt, active, notifyMu, jbinds>>
        /\ Held' = Held
    BY <2>1 DEF joy, app, thr, Held
  <2>3. CallInv' /\ NotifyInv' /\ LateInv'
    BY <1>1, <2>1, <2>2, QuietSteps
  <2>4. Held = {} /\ ~hkSuspended'
    BY <1>2, <1>12, <2>1 DEF KeyboardInv, Register, Resume, UiIs
  <2> QED  BY <1>2, <2>1, <2>2, <2>3, <2>4 DEF KeyboardInv, RebindInv, Goal
<1>13. ASSUME ApplyStick \/ SuspendStick PROVE Goal
  <2>1. /\ TakeNotify("ui", Edges("release", active \cap jbinds)) /\ active' = active \ jbinds
        /\ ui' \in {"holds", "idle"} /\ UNCHANGED <<binds, latched, hkSuspended, app, holds, registry>>
        /\ jbinds' = jbinds \/ jbinds' \subseteq registry
        /\ ui' = "holds" => ui = "stick" /\ jbinds' \subseteq registry
    BY <1>13 DEF ApplyStick, SuspendStick, UiIs, keyb, app
  <2>2. Held' = Held /\ SourceOf("ui")' = "stick"
    BY <2>1 DEF Held, SourceOf
  <2>3. CallInv' /\ NotifyInv' /\ LateInv'
    BY <1>1, <2>1, <2>2, TakeActive
  <2> QED  BY <1>2, <2>1, <2>2, <2>3 DEF KeyboardInv, RebindInv, Goal
<1>14. ASSUME EndApply PROVE Goal
  <2>1. /\ calls["ui"] = NoCalls /\ ui = "holds" /\ ui' = "idle" /\ holds' = registry
        /\ UNCHANGED <<binds, latched, hkSuspended, joy, registry, calls, at, held, owed, raced>>
        /\ UNCHANGED <<count, tx, ptt>>
        /\ late' = (late \/ \E t \in Threads : \E c \in Uncounted(t) : c.a \notin holds')
    BY <1>14 DEF EndApply, UiIs, keyb
  <2>2. /\ UNCHANGED <<calls, at, held, owed, raced, count, tx, ptt, active, notifyMu>>
        /\ jbinds' = jbinds /\ Held' = Held
    BY <2>1 DEF joy, Held
  <2>3. CallInv' /\ NotifyInv' /\ LateInv'
    BY <1>1, <2>1, <2>2, QuietSteps
  <2> QED  BY <1>2, <2>1, <2>2, <2>3 DEF KeyboardInv, RebindInv, Goal
<1>15. ASSUME ResumeStick PROVE Goal
  <2>1. /\ calls["ui"] = NoCalls /\ ui' = "idle"
        /\ UNCHANGED <<binds, latched, hkSuspended, jbinds, active, notifyMu, app, thr, registry>>
    BY <1>15 DEF ResumeStick, UiIs, keyb
  <2>2. /\ UNCHANGED <<calls, at, held, owed, raced, late, holds, count, tx, ptt>> /\ Held' = Held
    BY <2>1 DEF app, thr, Held
  <2>3. CallInv' /\ NotifyInv' /\ LateInv'
    BY <1>1, <2>1, <2>2, QuietSteps
  <2> QED  BY <1>2, <2>1, <2>2, <2>3 DEF KeyboardInv, RebindInv, Goal
<1>16. ASSUME NEW t \in Threads, HandlerStep(t) PROVE Goal
  BY <1>1, <1>16, HandlerKeeps DEF Goal
<1>17. ASSUME UNCHANGED vars PROVE Goal
  <2>1. /\ UNCHANGED <<calls, at, held, owed, raced, late, holds, count, tx, ptt, active, notifyMu, jbinds>>
        /\ UNCHANGED <<binds, latched, hkSuspended, registry, ui>> /\ Held' = Held
    BY <1>17 DEF vars, keyb, joy, app, thr, uiv, Held
  <2>2. CallInv' /\ NotifyInv' /\ LateInv'
    BY <1>1, <2>1, QuietSteps
  <2> QED  BY <1>2, <2>1, <2>2 DEF KeyboardInv, RebindInv, Goal
<1> QED  BY <1>3, <1>4, <1>5, <1>6, <1>7, <1>8, <1>9, <1>10, <1>11, <1>12, <1>13, <1>14, <1>15,
            <1>16, <1>17 DEF Next, WatchdogStep, UiEnds

(* Nothing is held and nobody is on the way (the managers' constructors).  *)
LEMMA InvariantInit == Init => IInv
<1> SUFFICES ASSUME Init PROVE IInv
  OBVIOUS
<1> USE PttAssumption DEF PttAssumption
<1>1. TypeOK
  <2>1. NoCalls \in Seq(Call)
    BY DEF NoCalls
  <2>2. 0 \in 0..MaxPresses /\ 0 \in 0..MaxGen /\ 0 \in 0..MaxOps /\ 0 \in 0..MaxFaults
    OBVIOUS
  <2>3. PhysType /\ JoyType /\ UiType
    BY <2>2 DEF Init, PhysType, JoyType, UiType, Actions
  <2>4. KeybType
    <3>1. [a \in Keyed |-> 0] \in [Keyed -> 0..MaxGen]
      BY <2>2
    <3>2. [a \in Keyed |-> {}] \in [Keyed -> SUBSET (1..MaxGen)]
      OBVIOUS
    <3> QED  BY <2>2, <3>1, <3>2 DEF Init, KeybType
  <2>5. AppType
    BY DEF Init, AppType, Actions
  <2>6. [a \in Actions |-> 0] \in [Actions -> Int]
    OBVIOUS
  <2>7. ThrType
    BY <2>1, <2>6 DEF Init, ThrType
  <2> QED  BY <2>3, <2>4, <2>5, <2>7, TypeParts
<1>2. Held = {} /\ \A t \in Threads : calls[t] = NoCalls /\ at[t] = "next" /\ Uncounted(t) = {}
  BY NothingUncounted DEF Init, Held
<1>3. ThreadInv
  BY <1>2 DEF ThreadInv, Once, NoCalls
<1>4. \A src, e, a : AllWaiting(src, e, a) = 0
  BY <1>2 DEF AllWaiting, Waiting, Threads
<1>5. BalanceInv
  BY <1>2, <1>4 DEF BalanceInv, Net, On, Sources, Init
<1>6. StickInv /\ AloneInv /\ LateInv
  BY <1>2 DEF StickInv, AloneInv, LateInv
<1>7. CountInv /\ GateInv
  BY <1>2 DEF CountInv, GateInv, Init
<1>8. KeyboardInv /\ RebindInv /\ NotifyInv
  BY <1>2 DEF KeyboardInv, RebindInv, NotifyInv, Init, Actions, Threads
<1> QED  BY <1>1, <1>3, <1>5, <1>6, <1>7, <1>8 DEF IInv, CallInv, MicInv

----------------------------------------------------------------------------
(* The results.                                                            *)

(* IInv holds in every state of the dispatcher, the two managers and the   *)
(* application's handler.                                                  *)
THEOREM Invariance == Spec => []IInv
<1>1. Init => IInv
  BY InvariantInit
<1>2. IInv /\ [Next]_vars => IInv'
  BY InvariantNext
<1> QED  BY <1>1, <1>2, PTL DEF Spec

(* The types of every variable, whatever keys, buttons, rebinds, captures  *)
(* and watchdogs do.                                                       *)
THEOREM TypeCorrect == Spec => []TypeOK
<1>1. IInv => TypeOK
  BY DEF IInv
<1> QED  BY <1>1, Invariance, PTL

(* Only one goroutine makes joystick calls, so an action is named in one.  *)
LEMMA OneSpan ==
  ASSUME TypeOK, NotifyInv, NEW e, NEW a
  PROVE  AllWaiting("stick", e, a) \in {0, 1}
<1>1. Waiting("hook", "stick", e, a) = 0 /\ Waiting("dog", "stick", e, a) = 0
  BY DEF Waiting, SourceOf
<1>2. Waiting("poll", "stick", e, a) \in {0, 1} /\ Waiting("ui", "stick", e, a) \in {0, 1}
  BY DEF Waiting
<1>3. Waiting("poll", "stick", e, a) = 0 \/ Waiting("ui", "stick", e, a) = 0
  <2> SUFFICES ASSUME Waiting("poll", "stick", e, a) # 0, Waiting("ui", "stick", e, a) # 0
               PROVE  FALSE
    OBVIOUS
  <2>1. Uncounted("poll") # {} /\ Uncounted("ui") # {} /\ SourceOf("ui") = "stick"
    BY DEF Waiting
  <2>2. calls["poll"] # NoCalls /\ calls["ui"] # NoCalls /\ ui \in {"holds", "idle"}
    BY <2>1, NothingUncounted DEF Threads, SourceOf
  <2> QED  BY <2>2 DEF NotifyInv
<1> QED  BY <1>1, <1>2, <1>3 DEF AllWaiting

(* takeLatchLocked and notifyMu: a latch never goes without its Released,  *)
(* and the joystick's edges for one action alternate, whichever goroutine  *)
(* makes the calls and however they interleave in the handler.             *)
THEOREM EdgesAlwaysBalance == Spec => []EdgesBalance
<1>1. IInv => EdgesBalance
  <2> SUFFICES ASSUME IInv PROVE LatchOwesReleased /\ ButtonEdgesAlternate
    BY DEF EdgesBalance
  <2> USE DEF IInv, CallInv
  <2>1. LatchOwesReleased
    <3> SUFFICES ASSUME NEW a \in Keyed
                 PROVE  owed["key"][a] + AllWaiting("key", "press", a) - AllWaiting("key", "release", a)
                          = (IF latched[a] # 0 THEN 1 ELSE 0)
      BY DEF LatchOwesReleased
    <3>1. Net("key", a) = IF a \in On("key") THEN 1 ELSE 0
      BY DEF BalanceInv, Sources, Actions
    <3>2. a \in On("key") <=> latched[a] # 0
      BY DEF On, Held
    <3> QED  BY <3>1, <3>2 DEF Net
  <2>2. ButtonEdgesAlternate
    <3> SUFFICES ASSUME NEW a \in Stick PROVE owed["stick"][a] \in {0, 1}
      BY DEF ButtonEdgesAlternate
    <3>1. a \in Actions /\ "stick" \in Sources /\ owed["stick"][a] \in Int
      BY DEF Actions, Sources, TypeOK
    <3>2. Net("stick", a) = IF a \in active THEN 1 ELSE 0
      BY <3>1 DEF BalanceInv, On
    <3>3. \A e : AllWaiting("stick", e, a) \in {0, 1}
      BY OneSpan
    <3>4. CASE a \in active
      <4>1. \A t \in Threads : Waiting(t, "stick", "release", a) = 0
        BY <3>4 DEF Waiting, StickInv
      <4>2. AllWaiting("stick", "release", a) = 0
        BY <4>1 DEF AllWaiting, Threads
      <4> QED  BY <3>1, <3>2, <3>3, <3>4, <4>2 DEF Net
    <3>5. CASE a \notin active
      <4>1. \A t \in Threads : Waiting(t, "stick", "press", a) = 0
        BY <3>5 DEF Waiting, StickInv
      <4>2. AllWaiting("stick", "press", a) = 0
        BY <4>1 DEF AllWaiting, Threads
      <4> QED  BY <3>1, <3>2, <3>3, <3>5, <4>2 DEF Net
    <3> QED  BY <3>4, <3>5
  <2> QED  BY <2>1, <2>2
<1> QED  BY <1>1, Invariance, PTL

(* pressed, released, txPress, txRelease and applyHotkeys: the microphone  *)
(* is open, for the actions it should be, exactly while something is held. *)
THEOREM MicFollows == Spec => []MicFollowsHolds
<1>1. IInv => MicFollowsHolds
  <2> SUFFICES ASSUME IInv, AtRest, ~raced, ~late
               PROVE  /\ \A a \in Actions : (a \in Held \cup active) <=> (a \in tx)
                      /\ ptt <=> tx # {}
    BY DEF MicFollowsHolds
  <2> USE DEF IInv, CallInv
  <2>1. CountInv /\ GateInv
    BY DEF MicInv
  <2>2. \A t \in Threads : at[t] = "next" /\ Uncounted(t) = {}
    BY NothingUncounted DEF AtRest, ThreadInv
  <2>3. \A r, e, a : AllWaiting(r, e, a) = 0
    BY <2>2 DEF AllWaiting, Waiting, Threads
  <2>4. ASSUME NEW a \in Actions PROVE a \in Held \cup active <=> a \in tx
    <3>1. \A r \in {"key", "stick"} : owed[r][a] = IF a \in On(r) THEN 1 ELSE 0
      <4> TAKE r \in {"key", "stick"}
      <4>1. Net(r, a) = IF a \in On(r) THEN 1 ELSE 0
        BY DEF BalanceInv, Sources
      <4>2. Net(r, a) = owed[r][a] + 0 - 0 /\ owed[r][a] \in Int
        BY <2>3 DEF Net, TypeOK
      <4> QED  BY <4>1, <4>2
    <3>2. /\ owed["key"][a] = IF a \in Held THEN 1 ELSE 0
          /\ owed["stick"][a] = IF a \in active THEN 1 ELSE 0
      BY <3>1 DEF On
    <3>3. count[a] > 0 <=> a \in Held \/ a \in active
      BY <2>1, <3>2 DEF CountInv
    <3>4. a \in tx <=> count[a] > 0
      BY <2>1, <2>2 DEF GateInv
    <3> QED  BY <3>3, <3>4
  <2>5. ptt <=> tx # {}
    BY <2>1, <2>2 DEF GateInv
  <2> QED  BY <2>4, <2>5
<1> QED  BY <1>1, Invariance, PTL

(* forceRelease: only the watchdog armed for this very press cuts a key    *)
(* that is still down, while the registrations and the stream stand.       *)
THEOREM HeldKeyStays == Spec => HeldKeyIsNotCut
<1> DEFINE Stays ==
      \A a \in Keyed :
        latched[a] # 0 /\ latched'[a] = 0 /\ a \in keyDown' /\ binds' # {}
          /\ stream' = "up" => latched[a] \in fired[a]
<1>1. IInv /\ [Next]_vars => Stays
  <2> SUFFICES ASSUME IInv, [Next]_vars, NEW a \in Keyed,
                      latched[a] # 0, latched'[a] = 0, a \in keyDown', binds' # {}, stream' = "up"
               PROVE  latched[a] \in fired[a]
    OBVIOUS
  <2>1. ASSUME NEW b \in Keyed, KeyDown(b) PROVE FALSE
    <3>1. CASE SetLatch(b)
      BY <3>1 DEF SetLatch, IInv, TypeOK
    <3>2. CASE UNCHANGED latched
      BY <3>2
    <3> QED  BY <2>1, <3>1, <3>2 DEF KeyDown
  <2>2. ASSUME NEW b \in Keyed, KeyUp(b) PROVE FALSE
    <3>1. CASE a = b
      BY <2>2, <3>1 DEF KeyUp
    <3>2. CASE a # b
      BY <2>2, <3>2 DEF KeyUp, TakeLatches
    <3> QED  BY <3>1, <3>2
  <2>3. ASSUME NEW b \in Keyed, NEW g \in fired[b], ForceRelease(b, g)
        PROVE  latched[a] \in fired[a]
    <3>1. CASE Outdated(b, g)
      BY <2>3, <3>1 DEF ForceRelease, TakeLatches
    <3>2. CASE ~Outdated(b, g)
      <4>1. latched' = [x \in Keyed |-> IF x \in {b} THEN 0 ELSE latched[x]]
        BY <2>3, <3>2 DEF ForceRelease, TakeLatches
      <4>2. a = b
        BY <4>1
      <4> QED  BY <2>3, <3>2, <4>2 DEF Outdated
    <3> QED  BY <3>1, <3>2
  <2>4. ASSUME StreamDies \/ Suspend \/ ApplyClears PROVE FALSE
    BY <2>4 DEF StreamDies, Suspend, ApplyClears, Clear
  <2>5. ASSUME \/ \E b \in Keyed : KeyUpLost(b) \/ Expire(b)
               \/ \E b \in Stick : ButtonDown(b) \/ ButtonUp(b)
               \/ \E R \in {Actions, Actions \ Transient} : StartApply(R)
               \/ Tick \/ Resume \/ ApplyRecords \/ Register \/ ApplyStick \/ EndApply
               \/ SuspendStick \/ ResumeStick \/ (\E t \in Threads : HandlerStep(t))
               \/ UNCHANGED vars
        PROVE  FALSE
    <3>1. latched' = latched
      BY <2>5 DEF KeyUpLost, Expire, ButtonDown, ButtonUp, StartApply, Tick, Resume, ApplyRecords,
                  Register, ApplyStick, EndApply, SuspendStick, ResumeStick, HandlerStep, Enter,
                  TxPress, TxRelease, Gate, keyb, vars
    <3> QED  BY <3>1
  <2> QED  BY <2>1, <2>2, <2>3, <2>4, <2>5 DEF Next, WatchdogStep, UiEnds
<1>2. IInv /\ [Next]_vars => [Stays]_vars
  BY <1>1
<1> QED  BY <1>2, Invariance, PTL DEF Spec, HeldKeyIsNotCut
=============================================================================
