--------------------------- MODULE VoicePlaneProofs ---------------------------
(***************************************************************************)
(* The inductive invariant of the voice plane, and the proofs of its       *)
(* safety properties for any calls, redirects, actions and sessions.       *)
(***************************************************************************)
EXTENDS VoicePlane, TLAPS

Dialed == 1..Len(addrs)

\* p is the one that will install, reject or close s.
Holds(p, s) ==
  \/ At(p, "install") /\ proc[p].new = s
  \/ proc[p].at \in {"bridge", "close"} /\ proc[p].old = s

\* p took a generation for a dial that is not over.
Underway(p) == proc[p].at \in {"inputs", "dial", "install"}

\* Every open session is live or is in one goroutine's hands, and not in both.
OwnerInv ==
  /\ \A p \in Procs : At(p, "install") => proc[p].new # None
  /\ sess \notin closed
  /\ \A s \in Dialed : \A p \in Procs : Holds(p, s) => s \notin closed /\ s # sess
  /\ \A s \in Dialed : \A p, q \in Procs : Holds(p, s) /\ Holds(q, s) => p = q
  /\ \A s \in Dialed : s \in closed \/ s = sess \/ \E p \in Procs : Holds(p, s)

\* The dial of the newest generation has read credentials that are no older
\* than those of the live session.
AddressInv ==
  /\ creds # 0 => creds = version
  /\ \A p, q \in Procs :
       Underway(p) /\ Underway(q) /\ proc[p].gen = proc[q].gen => p = q
  /\ \A p \in Procs : proc[p].at \in {"dial", "install"} =>
       /\ proc[p].addr # 0
       /\ proc[p].gen = gen /\ sess # None => addrs[sess] <= proc[p].addr
  /\ \A p \in Procs : At(p, "install") => addrs[proc[p].new] = proc[p].addr

IInv == TypeOK /\ OwnerInv /\ AddressInv /\ TransmissionsFollowSession

\* What a goroutine may hold between two steps.
Locals ==
  [at : {"idle", "generation", "inputs", "dial", "install", "bridge",
         "close", "reset", "observe", "redirect"},
   then : {"idle", "generation", "reset"},
   gen : 0..gen, addr : 0..version, new : 0..Len(addrs), old : 0..Len(addrs)]

\* Generations, credentials and the list of dialed sessions only grow.
Grows ==
  /\ gen \in Nat /\ gen' \in Nat /\ gen <= gen'
  /\ version \in Nat /\ version' \in Nat /\ version <= version'
  /\ addrs \in Seq(1..version) /\ addrs' \in Seq(1..version')
  /\ Len(addrs) \in Nat /\ Len(addrs') \in Nat /\ Len(addrs) <= Len(addrs')
  /\ \A i \in 1..Len(addrs) : addrs'[i] = addrs[i]

\* No step takes a generation, a login's credentials or a session back
\* (nextVoiceGeneration, voiceSessionSwap).
LEMMA Growth == TypeOK /\ AddressInv /\ [Next]_vars => Grows
  <1> SUFFICES ASSUME TypeOK, AddressInv, [Next]_vars PROVE Grows
    OBVIOUS
  <1> USE PlaneAssumption DEF TypeOK, Grows, credVars, sessVars
  <1>0. addrs \in Seq(1..(version + 1)) /\ Len(addrs) \in Nat
    OBVIOUS
  <1>1. ASSUME NEW b \in Bindings, Call(b) PROVE Grows
    <2>1. CASE Connect(b)
      BY <1>0, <2>1 DEF Connect, StoreCreds
    <2>2. CASE ReconnectVoice(b) \/ Disconnect(b)
      BY <2>2 DEF ReconnectVoice, Disconnect, Teardown
    <2> QED
      BY <1>1, <2>1, <2>2 DEF Call
  <1>2. CASE SessionEnds \/ Redirect
    <2>1. CASE Redirect
      BY <1>0, <2>1 DEF Redirect, StoreCreds
    <2>2. CASE SessionEnds
      BY <2>2 DEF SessionEnds, Teardown
    <2> QED
      BY <1>2, <2>1, <2>2
  <1>3. ASSUME NEW p \in Procs, TakeGen(p) PROVE Grows
    BY <1>3 DEF TakeGen
  <1>4. ASSUME NEW p \in Procs, Dial(p) PROVE Grows
    <2>1. proc[p].addr \in 1..version
      BY <1>4 DEF Dial, At, AddressInv
    <2>2. Len(addrs) \in Nat
      OBVIOUS
    <2>3. /\ Append(addrs, proc[p].addr) \in Seq(1..version)
          /\ Len(Append(addrs, proc[p].addr)) = Len(addrs) + 1
          /\ \A i \in 1..Len(addrs) : Append(addrs, proc[p].addr)[i] = addrs[i]
      BY <2>1
    <2>4. version' = version /\ gen' = gen
      BY <1>4 DEF Dial
    <2>5. addrs' = addrs \/ addrs' = Append(addrs, proc[p].addr)
      BY <1>4 DEF Dial
    <2>6. CASE addrs' = addrs
      BY <2>2, <2>4, <2>6
    <2>7. CASE addrs' = Append(addrs, proc[p].addr)
      BY <2>2, <2>3, <2>4, <2>7
    <2> QED
      BY <2>5, <2>6, <2>7
  <1>5. ASSUME NEW p \in Procs, NEW d \in Dialers, StartRedirect(p, d) PROVE Grows
    BY <1>5 DEF StartRedirect
  <1>6. ASSUME NEW p \in Procs,
               ReadInputs(p) \/ Install(p) \/ Reject(p) \/ PointBridge(p) \/ CloseOld(p)
                 \/ ResetSession(p) \/ Observe(p)
        PROVE Grows
    BY <1>6 DEF ReadInputs, Install, Reject, PointBridge, CloseOld, ResetSession, Observe,
                StoreCreds
  <1>7. ASSUME NEW a \in Actions, Press(a) \/ ReleaseOne(a) \/ ReleaseLast(a) PROVE Grows
    <2>1. UNCHANGED <<credVars, sessVars>>
      BY <1>7 DEF Press, ReleaseOne, ReleaseLast
    <2> QED
      BY <2>1
  <1>8. CASE ClearTargets \/ UNCHANGED vars
    BY <1>8 DEF ClearTargets, vars
  <1> QED
    BY <1>1, <1>2, <1>3, <1>4, <1>5, <1>6, <1>7, <1>8 DEF Next, Step

\* Locals keep their range while what they refer to grows.
LEMMA LocalsGrow == ASSUME Grows PROVE Locals \subseteq Locals'
  <1>1. /\ 0..gen \subseteq 0..gen'
        /\ 0..version \subseteq 0..version'
        /\ 0..Len(addrs) \subseteq 0..Len(addrs')
    BY DEF Grows
  <1> QED
    BY <1>1 DEF Locals

\* Each handler leaves locals of their types (voiceSessionSwap, handleVoiceRedirect).
LEMMA LocalsNext == TypeOK /\ AddressInv /\ [Next]_vars => proc' \in [Procs -> Locals']
  <1> SUFFICES ASSUME TypeOK, AddressInv, [Next]_vars PROVE proc' \in [Procs -> Locals']
    OBVIOUS
  <1>1. proc \in [Procs -> Locals]
    BY DEF TypeOK, Locals
  <1>2. Grows
    BY Growth
  <1>3. Locals \subseteq Locals'
    BY <1>2, LocalsGrow
  <1>4. ASSUME NEW p \in Procs, NEW r \in Locals', Becomes(p, r) PROVE proc' \in [Procs -> Locals']
    BY <1>1, <1>3, <1>4 DEF Becomes
  <1>5. ASSUME NEW step \in {"idle", "generation", "reset", "observe"},
               NEW next \in {"idle", "generation", "reset"}
        PROVE Doing(step, next) \in Locals'
    BY <1>2 DEF Doing, Locals, Grows, None
  <1>6. ASSUME NEW step \in {"inputs", "dial", "install"}, NEW g \in 0..gen',
               NEW a \in 0..version', NEW s \in 0..Len(addrs')
        PROVE Dialing(step, g, a, s) \in Locals'
    BY <1>2 DEF Dialing, Locals, Grows, None
  <1>7. ASSUME NEW next \in {"idle", "generation", "reset"},
               NEW s \in 0..Len(addrs'), NEW old \in 0..Len(addrs')
        PROVE Swapping(next, s, old) \in Locals'
    BY <1>2 DEF Swapping, Locals, Grows, None
  <1>8. \A p \in Procs : proc[p] \in Locals /\ proc[p] \in Locals'
    BY <1>1, <1>3
  <1>9. sess \in 0..Len(addrs') /\ None \in 0..Len(addrs') /\ 0 \in 0..version'
    BY <1>2 DEF TypeOK, Grows, None
  <1>10. \A p \in Procs : GoesOn(p) \in Locals'
    <2>1. \A p \in Procs : proc[p].then \in {"idle", "generation", "reset"}
      BY <1>8 DEF Locals
    <2> QED
      BY <1>5, <2>1 DEF GoesOn
  <1>11. Idle \in Locals'
    BY <1>5 DEF Idle
  <1>12. ASSUME NEW b \in Procs, NEW next \in {"generation", "reset"}, Teardown(b, next)
         PROVE proc' \in [Procs -> Locals']
    BY <1>4, <1>7, <1>9, <1>12 DEF Teardown
  <1>13. ASSUME NEW b \in Procs, NEW c, NEW next \in {"generation", "idle"}, StoreCreds(b, c, next)
         PROVE proc' \in [Procs -> Locals']
    BY <1>4, <1>5, <1>13 DEF StoreCreds
  <1>14. ASSUME NEW b \in Bindings, Call(b) PROVE proc' \in [Procs -> Locals']
    BY <1>12, <1>13, <1>14 DEF Call, Connect, ReconnectVoice, Disconnect, Procs
  <1>15. CASE SessionEnds \/ Redirect
    BY <1>12, <1>13, <1>15 DEF SessionEnds, Redirect, Procs
  <1>16. ASSUME NEW p \in Procs, TakeGen(p) PROVE proc' \in [Procs -> Locals']
    <2>1. gen' \in 0..gen'
      BY <1>2 DEF Grows
    <2> QED
      BY <1>4, <1>6, <1>9, <1>16, <2>1 DEF TakeGen
  <1>17. ASSUME NEW p \in Procs, ReadInputs(p) PROVE proc' \in [Procs -> Locals']
    <2>1. proc[p].gen \in 0..gen' /\ creds \in 0..version'
      BY <1>2, <1>8 DEF TypeOK, Grows, Locals
    <2> QED
      BY <1>4, <1>6, <1>9, <1>11, <1>17, <2>1 DEF ReadInputs
  <1>18. ASSUME NEW p \in Procs, Dial(p) PROVE proc' \in [Procs -> Locals']
    <2>1. proc[p].gen \in 0..gen' /\ proc[p].addr \in 0..version' /\ Len(addrs') \in 0..Len(addrs')
      BY <1>2, <1>8 DEF Grows, Locals
    <2> QED
      BY <1>4, <1>6, <1>11, <1>18, <2>1 DEF Dial
  <1>19. ASSUME NEW p \in Procs, Install(p) PROVE proc' \in [Procs -> Locals']
    <2>1. proc[p].new \in 0..Len(addrs')
      BY <1>8 DEF Locals
    <2> QED
      BY <1>4, <1>7, <1>9, <1>19, <2>1 DEF Install
  <1>20. ASSUME NEW p \in Procs, Reject(p) \/ CloseOld(p) PROVE proc' \in [Procs -> Locals']
    BY <1>4, <1>10, <1>11, <1>20 DEF Reject, CloseOld
  <1>21. ASSUME NEW p \in Procs, PointBridge(p) \/ Observe(p) PROVE proc' \in [Procs -> Locals']
    <2>1. [proc[p] EXCEPT !.at = "close"] \in Locals' /\ [proc[p] EXCEPT !.at = "redirect"] \in Locals'
      BY <1>8 DEF Locals
    <2> QED
      BY <1>4, <1>10, <1>21, <2>1 DEF PointBridge, Observe
  <1>22. ASSUME NEW p \in Procs, ResetSession(p) PROVE proc' \in [Procs -> Locals']
    BY <1>13, <1>22 DEF ResetSession
  <1>23. ASSUME NEW p \in Procs, NEW d \in Dialers, StartRedirect(p, d)
         PROVE proc' \in [Procs -> Locals']
    <2>1. gen' \in 0..gen'
      BY <1>2 DEF Grows
    <2>2. Dialing("inputs", gen', 0, None) \in Locals'
      BY <1>6, <1>9, <2>1
    <2> QED
      BY <1>8, <1>10, <1>23, <2>2 DEF StartRedirect
  <1>24. ASSUME NEW a \in Actions, Press(a) \/ ReleaseOne(a) \/ ReleaseLast(a)
         PROVE proc' \in [Procs -> Locals']
    BY <1>1, <1>3, <1>24 DEF Press, ReleaseOne, ReleaseLast
  <1>25. CASE ClearTargets \/ UNCHANGED vars
    BY <1>1, <1>3, <1>25 DEF ClearTargets, vars
  <1> QED
    BY <1>14, <1>15, <1>16, <1>17, <1>18, <1>19, <1>20, <1>21, <1>22, <1>23, <1>24, <1>25
       DEF Next, Step

\* The types of the other fields.
FieldsOK ==
  /\ ops \in 0..MaxOps /\ version \in 0..ops /\ creds \in 0..version
  /\ sess \in 0..Len(addrs) /\ bridge \in 0..Len(addrs) /\ closed \subseteq 1..Len(addrs)
  /\ tx \subseteq Actions /\ targets \subseteq Actions /\ started \subseteq Actions
  /\ touched \in BOOLEAN /\ armed \in BOOLEAN

\* Every handler keeps the types of voiceState and of the goroutines' locals.
LEMMA TypeNext == TypeOK /\ OwnerInv /\ AddressInv /\ [Next]_vars => TypeOK'
  <1> SUFFICES ASSUME TypeOK, OwnerInv, AddressInv, [Next]_vars PROVE TypeOK'
    OBVIOUS
  <1>1. proc' \in [Procs -> Locals'] /\ Grows
    BY LocalsNext, Growth
  <1>2. SUFFICES FieldsOK'
    BY <1>1, <1>2 DEF TypeOK, FieldsOK, Locals, Grows
  <1>3. FieldsOK /\ \A p \in Procs : proc[p] \in Locals
    BY DEF TypeOK, FieldsOK, Locals
  <1>4. \A p \in Procs : proc[p].new \in 0..Len(addrs) /\ proc[p].old \in 0..Len(addrs)
    BY <1>3 DEF Locals
  <1>22. \A p \in Procs : /\ proc[p].new # None => proc[p].new \in 1..Len(addrs)
                          /\ proc[p].old # None => proc[p].old \in 1..Len(addrs)
    BY <1>1, <1>4 DEF None, Grows
  <1> HIDE DEF TypeOK
  <1> USE PlaneAssumption DEF FieldsOK, credVars, sessVars, txVars
  <1>5. ASSUME NEW p \in Procs, NEW next, Teardown(p, next), Starts(p) PROVE FieldsOK'
    <2>1. 0 \in 0..Len(addrs) /\ ops' \in 0..MaxOps /\ ops <= ops'
      BY <1>1, <1>3, <1>5 DEF Starts, Grows
    <2>2. version \in 0..ops'
      BY <1>1, <1>3, <2>1 DEF Grows
    <2> QED
      BY <1>3, <1>5, <2>1, <2>2 DEF Teardown, FlushedLog, None
  <1>6. ASSUME NEW b \in Bindings, Call(b) PROVE FieldsOK'
    <2>1. CASE Connect(b)
      BY <1>1, <1>3, <2>1 DEF Connect, StoreCreds, Starts, Grows
    <2>2. CASE ReconnectVoice(b) \/ Disconnect(b)
      BY <1>5, <2>2 DEF ReconnectVoice, Disconnect, Procs
    <2> QED
      BY <1>6, <2>1, <2>2 DEF Call
  <1>7. CASE Redirect
    BY <1>1, <1>3, <1>7 DEF Redirect, StoreCreds, Starts, Grows
  <1>8. CASE SessionEnds
    BY <1>5, <1>8 DEF SessionEnds, Procs
  <1>9. ASSUME NEW p \in Procs, TakeGen(p) \/ ReadInputs(p) \/ Observe(p) PROVE FieldsOK'
    BY <1>3, <1>9 DEF TakeGen, ReadInputs, Observe
  <1>10. ASSUME NEW p \in Procs, Dial(p) PROVE FieldsOK'
    BY <1>1, <1>3, <1>10 DEF Dial, Grows
  <1>11. ASSUME NEW p \in Procs, Install(p) PROVE FieldsOK'
    BY <1>3, <1>4, <1>11 DEF Install
  <1>12. ASSUME NEW p \in Procs, Reject(p) PROVE FieldsOK'
    <2>1. proc[p].new # None
      BY <1>12 DEF Reject, OwnerInv
    <2>2. closed \cup {proc[p].new} \subseteq 1..Len(addrs)
      BY <1>3, <1>22, <2>1
    <2>3. closed' \subseteq 1..Len(addrs)
      BY <1>12, <2>2 DEF Reject
    <2> QED
      BY <1>3, <1>12, <2>3 DEF Reject
  <1>13. ASSUME NEW p \in Procs, PointBridge(p) PROVE FieldsOK'
    BY <1>3, <1>4, <1>13 DEF PointBridge
  <1>14. ASSUME NEW p \in Procs, CloseOld(p) PROVE FieldsOK'
    <2>1. closed \cup ({proc[p].old} \ {None}) \subseteq 1..Len(addrs)
      BY <1>3, <1>22
    <2>2. closed' \subseteq 1..Len(addrs)
      BY <1>14, <2>1 DEF CloseOld
    <2> QED
      BY <1>3, <1>14, <2>2 DEF CloseOld
  <1>15. ASSUME NEW p \in Procs, ResetSession(p) PROVE FieldsOK'
    BY <1>1, <1>3, <1>15 DEF ResetSession, StoreCreds, Grows
  <1>16. ASSUME NEW p \in Procs, NEW d \in Dialers, StartRedirect(p, d) PROVE FieldsOK'
    BY <1>3, <1>16 DEF StartRedirect
  <1>17. ASSUME NEW a \in Actions, Press(a) PROVE FieldsOK'
    BY <1>3, <1>17 DEF Press, InstallTargets
  <1>18. ASSUME NEW a \in Actions, ReleaseOne(a) PROVE FieldsOK'
    BY <1>3, <1>18 DEF ReleaseOne, InstallTargets
  <1>19. ASSUME NEW a \in Actions, ReleaseLast(a) PROVE FieldsOK'
    BY <1>3, <1>19 DEF ReleaseLast
  <1>20. CASE ClearTargets
    BY <1>3, <1>20 DEF ClearTargets, ClearIfIdle, InstallTargets
  <1>21. CASE UNCHANGED vars
    BY <1>3, <1>21 DEF vars
  <1> QED
    BY <1>6, <1>7, <1>8, <1>9, <1>10, <1>11, <1>12, <1>13, <1>14, <1>15, <1>16, <1>17,
       <1>18, <1>19, <1>20, <1>21 DEF Next, Step

\* A step of one goroutine leaves the locals of the others alone.
LEMMA BecomesOne ==
  ASSUME TypeOK, NEW p \in Procs, NEW r, Becomes(p, r)
  PROVE proc'[p] = r /\ \A q \in Procs \ {p} : proc'[q] = proc[q]
  <1>1. DOMAIN proc = Procs
    BY DEF TypeOK
  <1> QED
    BY <1>1 DEF Becomes

\* A step that hands no session over keeps every open session in one pair of
\* hands (voiceSessionSwap).
LEMMA OwnerKept ==
  ASSUME TypeOK, OwnerInv, UNCHANGED <<sess, closed, addrs>>,
         \A p \in Procs : \A s \in Dialed : Holds(p, s)' <=> Holds(p, s),
         \A p \in Procs : At(p, "install")' => proc'[p].new # None
  PROVE OwnerInv'
  <1>1. Dialed' = Dialed
    BY DEF Dialed
  <1> QED
    BY <1>1 DEF OwnerInv

\* ... as a step of one goroutine does that stays away from the hand-over.
LEMMA OwnerKeptByOne ==
  ASSUME TypeOK, OwnerInv, UNCHANGED <<sess, closed, addrs>>, NEW p \in Procs, NEW r, Becomes(p, r),
         proc[p].at \notin {"install", "bridge", "close"},
         r.at \notin {"install", "bridge", "close"}
  PROVE OwnerInv'
  <1>1. proc'[p] = r /\ \A q \in Procs \ {p} : proc'[q] = proc[q]
    BY BecomesOne
  <1>2. \A q \in Procs : \A s \in Dialed : Holds(q, s)' <=> Holds(q, s)
    BY <1>1 DEF Holds, At
  <1>3. \A q \in Procs : At(q, "install")' => proc'[q].new # None
    BY <1>1 DEF OwnerInv, At
  <1> QED
    BY <1>2, <1>3, OwnerKept

\* Whoever swaps a session in or out takes over the one it replaces, and
\* whoever closes one gives it up (voiceSessionSwap, setVoiceSession).
LEMMA OwnerNext == TypeOK /\ OwnerInv /\ [Next]_vars => OwnerInv'
  <1> SUFFICES ASSUME TypeOK, OwnerInv, [Next]_vars PROVE OwnerInv'
    OBVIOUS
  <1> USE DEF credVars, sessVars, txVars
  <1>1. ASSUME NEW p \in Procs, NEW c, NEW next, StoreCreds(p, c, next),
               At(p, "idle") \/ At(p, "reset")
        PROVE OwnerInv'
    <2>1. Doing("observe", next).at = "observe"
      BY DEF Doing
    <2> QED
      BY <1>1, <2>1, OwnerKeptByOne DEF StoreCreds, At
  <1>2. ASSUME NEW p \in Procs, NEW next, Teardown(p, next), At(p, "idle") PROVE OwnerInv'
    <2>1. /\ proc'[p] = Swapping(next, None, sess)
          /\ \A q \in Procs \ {p} : proc'[q] = proc[q]
      BY <1>2, BecomesOne DEF Teardown
    <2>2. sess' = None /\ Dialed' = Dialed /\ closed' = closed
      BY <1>2 DEF Teardown, Dialed
    <2>3. \A q \in Procs \ {p} : \A s \in Dialed : Holds(q, s)' <=> Holds(q, s)
      BY <2>1 DEF Holds, At
    <2>4. \A s \in Dialed : (Holds(p, s)' <=> s = sess) /\ ~Holds(p, s)
      BY <1>2, <2>1 DEF Holds, At, Swapping
    <2>5. None \notin Dialed /\ None \notin closed
      BY DEF None, Dialed, TypeOK
    <2>6. \A q \in Procs : At(q, "install")' => proc'[q].new # None
      BY <2>1 DEF OwnerInv, At, Swapping
    <2>7. \A s \in Dialed : \A q \in Procs : Holds(q, s)' => s \notin closed' /\ s # sess'
      BY <2>2, <2>3, <2>4, <2>5 DEF OwnerInv
    <2>8. \A s \in Dialed : \A q1, q2 \in Procs : Holds(q1, s)' /\ Holds(q2, s)' => q1 = q2
      BY <2>3, <2>4 DEF OwnerInv
    <2>9. \A s \in Dialed : s \in closed' \/ s = sess' \/ \E q \in Procs : Holds(q, s)'
      <3> SUFFICES ASSUME NEW s \in Dialed, s \notin closed, s # sess
                   PROVE \E q \in Procs : Holds(q, s)'
        BY <2>2, <2>4
      <3>1. PICK q \in Procs : Holds(q, s)
        BY DEF OwnerInv
      <3> QED
        BY <2>3, <2>4, <3>1
    <2> QED
      BY <2>2, <2>5, <2>6, <2>7, <2>8, <2>9 DEF OwnerInv
  <1>3. ASSUME NEW b \in Bindings, Call(b) PROVE OwnerInv'
    BY <1>1, <1>2, <1>3 DEF Call, Connect, ReconnectVoice, Disconnect, Starts, Procs
  <1>4. CASE Redirect \/ SessionEnds
    BY <1>1, <1>2, <1>4 DEF Redirect, SessionEnds, Starts, Procs
  <1>5. ASSUME NEW p \in Procs, TakeGen(p) PROVE OwnerInv'
    <2>1. Dialing("inputs", gen', 0, None).at = "inputs"
      BY DEF Dialing
    <2> QED
      BY <1>5, <2>1, OwnerKeptByOne DEF TakeGen, At
  <1>6. ASSUME NEW p \in Procs, ReadInputs(p) PROVE OwnerInv'
    <2>1. Dialing("dial", proc[p].gen, creds, None).at = "dial" /\ Idle.at = "idle"
      BY DEF Dialing, Idle, Doing
    <2> QED
      BY <1>6, <2>1, OwnerKeptByOne DEF ReadInputs, At
  <1>7. ASSUME NEW p \in Procs, Dial(p) PROVE OwnerInv'
    <2>1. CASE UNCHANGED addrs /\ Becomes(p, Idle)
      BY <1>7, <2>1, OwnerKeptByOne DEF Dial, At, Idle, Doing
    <2>2. CASE addrs' = Append(addrs, proc[p].addr)
               /\ Becomes(p, Dialing("install", proc[p].gen, proc[p].addr, Len(addrs')))
      <3>0. PICK n : n = Len(addrs) + 1
        OBVIOUS
      <3>1. Len(addrs) \in Nat /\ Len(addrs') = n /\ n = Len(addrs) + 1
        BY <2>2, <3>0 DEF TypeOK
      <3>2. Dialed' = Dialed \cup {n} /\ n \notin Dialed /\ n # None /\ n # sess /\ n \notin closed
        BY <3>1 DEF Dialed, None, TypeOK
      <3>3. /\ proc'[p] = Dialing("install", proc[p].gen, proc[p].addr, n)
            /\ \A q \in Procs \ {p} : proc'[q] = proc[q]
        BY <2>2, <3>1, BecomesOne
      <3>4. \A q \in Procs : proc[q].new \in 0..Len(addrs) /\ proc[q].old \in 0..Len(addrs)
        BY DEF TypeOK
      <3>5. \A q \in Procs : proc[q].new # n /\ proc[q].old # n
        BY <3>1, <3>4
      <3>6. \A q \in Procs \ {p} : ~Holds(q, n)' /\ \A s \in Dialed : Holds(q, s)' <=> Holds(q, s)
        BY <3>3, <3>5 DEF Holds, At
      <3>7. /\ Holds(p, n)'
            /\ \A s \in Dialed : ~Holds(p, s)' /\ ~Holds(p, s)
        BY <1>7, <3>2, <3>3 DEF Holds, At, Dial, Dialing
      <3>8. UNCHANGED <<sess, closed>>
        BY <1>7 DEF Dial
      <3>9. \A q \in Procs : At(q, "install")' => proc'[q].new # None
        BY <3>2, <3>3 DEF OwnerInv, At, Dialing
      <3>10. \A s \in Dialed' : \A q \in Procs : Holds(q, s)' => s \notin closed' /\ s # sess'
        BY <3>2, <3>6, <3>7, <3>8 DEF OwnerInv
      <3>11. \A s \in Dialed' : \A q1, q2 \in Procs : Holds(q1, s)' /\ Holds(q2, s)' => q1 = q2
        BY <3>2, <3>6, <3>7 DEF OwnerInv
      <3>12. \A s \in Dialed' : s \in closed' \/ s = sess' \/ \E q \in Procs : Holds(q, s)'
        <4> SUFFICES ASSUME NEW s \in Dialed, s \notin closed, s # sess
                     PROVE \E q \in Procs : Holds(q, s)'
          BY <3>2, <3>7, <3>8
        <4>1. PICK q \in Procs : Holds(q, s)
          BY DEF OwnerInv
        <4> QED
          BY <3>6, <3>7, <4>1
      <3> QED
        BY <3>8, <3>9, <3>10, <3>11, <3>12 DEF OwnerInv
    <2> QED
      BY <1>7, <2>1, <2>2 DEF Dial
  <1>8. ASSUME NEW p \in Procs, Install(p) PROVE OwnerInv'
    <2>1. /\ proc'[p] = Swapping("idle", proc[p].new, sess)
          /\ \A q \in Procs \ {p} : proc'[q] = proc[q]
      BY <1>8, BecomesOne DEF Install
    <2>2. sess' = proc[p].new /\ Dialed' = Dialed /\ closed' = closed
      BY <1>8 DEF Install, Dialed
    <2>3. \A q \in Procs \ {p} : \A s \in Dialed : Holds(q, s)' <=> Holds(q, s)
      BY <2>1 DEF Holds, At
    <2>4. \A s \in Dialed : (Holds(p, s)' <=> s = sess) /\ (Holds(p, s) <=> s = proc[p].new)
      BY <1>8, <2>1 DEF Holds, At, Swapping, Install
    <2>5. proc[p].new \in Dialed
      <3>1. proc[p].new \in 0..Len(addrs) /\ proc[p].new # None /\ Len(addrs) \in Nat
        BY <1>8 DEF TypeOK, OwnerInv, Install
      <3> QED
        BY <3>1 DEF Dialed, None
    <2>6. \A q \in Procs : At(q, "install")' => proc'[q].new # None
      BY <2>1 DEF OwnerInv, At, Swapping
    <2>7. \A s \in Dialed : \A q \in Procs : Holds(q, s)' => s \notin closed' /\ s # sess'
      BY <2>2, <2>3, <2>4, <2>5 DEF OwnerInv
    <2>8. \A s \in Dialed : \A q1, q2 \in Procs : Holds(q1, s)' /\ Holds(q2, s)' => q1 = q2
      BY <2>3, <2>4 DEF OwnerInv
    <2>9. \A s \in Dialed : s \in closed' \/ s = sess' \/ \E q \in Procs : Holds(q, s)'
      <3> SUFFICES ASSUME NEW s \in Dialed, s \notin closed, s # sess, s # proc[p].new
                   PROVE \E q \in Procs : Holds(q, s)'
        BY <2>2, <2>4
      <3>1. PICK q \in Procs : Holds(q, s)
        BY DEF OwnerInv
      <3> QED
        BY <2>3, <2>4, <3>1
    <2>10. sess' \notin closed'
      BY <2>2, <2>4, <2>5 DEF OwnerInv
    <2> QED
      BY <2>2, <2>6, <2>7, <2>8, <2>9, <2>10 DEF OwnerInv
  <1>9. ASSUME NEW p \in Procs, NEW s0, NEW r, s0 \in Dialed => Holds(p, s0), Becomes(p, r),
               s0 # sess, closed' = closed \cup ({s0} \ {None}),
               \A s \in Dialed : Holds(p, s) => s = s0,
               r.at \notin {"install", "bridge", "close"}, UNCHANGED <<sess, addrs>>
        PROVE OwnerInv'
    <2>1. proc'[p] = r /\ \A q \in Procs \ {p} : proc'[q] = proc[q]
      BY <1>9, BecomesOne
    <2>2. sess' = sess /\ Dialed' = Dialed
      BY <1>9 DEF Dialed
    <2>3. \A q \in Procs \ {p} : \A s \in Dialed : Holds(q, s)' <=> Holds(q, s)
      BY <2>1 DEF Holds, At
    <2>4. \A s \in Dialed : ~Holds(p, s)'
      BY <1>9, <2>1 DEF Holds, At
    <2>5. \A q \in Procs : At(q, "install")' => proc'[q].new # None
      BY <1>9, <2>1 DEF OwnerInv, At
    <2>6. \A s \in Dialed : \A q \in Procs : Holds(q, s)' => s \notin closed' /\ s # sess'
      BY <1>9, <2>2, <2>3, <2>4 DEF OwnerInv
    <2>7. \A s \in Dialed : \A q1, q2 \in Procs : Holds(q1, s)' /\ Holds(q2, s)' => q1 = q2
      BY <2>3, <2>4 DEF OwnerInv
    <2>8. \A s \in Dialed : s \in closed' \/ s = sess' \/ \E q \in Procs : Holds(q, s)'
      <3> SUFFICES ASSUME NEW s \in Dialed, s \notin closed', s # sess
                   PROVE \E q \in Procs : Holds(q, s)'
        BY <2>2
      <3>1. s \notin closed /\ s # s0
        BY <1>9 DEF None, Dialed, TypeOK
      <3>2. PICK q \in Procs : Holds(q, s)
        BY <3>1 DEF OwnerInv
      <3> QED
        BY <1>9, <2>3, <3>1, <3>2
    <2>9. sess' \notin closed'
      BY <1>9 DEF OwnerInv
    <2> QED
      BY <2>2, <2>5, <2>6, <2>7, <2>8, <2>9 DEF OwnerInv
  <1>10. ASSUME NEW p \in Procs, Reject(p) PROVE OwnerInv'
    <2>1. proc[p].new \in Dialed /\ proc[p].new # None
      <3>1. proc[p].new \in 0..Len(addrs) /\ proc[p].new # None /\ Len(addrs) \in Nat
        BY <1>10 DEF TypeOK, OwnerInv, Reject
      <3> QED
        BY <3>1 DEF Dialed, None
    <2>2. \A s \in Dialed : Holds(p, s) <=> s = proc[p].new
      BY <1>10 DEF Holds, At, Reject
    <2>3. proc[p].new # sess
      BY <2>1, <2>2 DEF OwnerInv
    <2>4. closed' = closed \cup ({proc[p].new} \ {None}) /\ Becomes(p, Idle) /\ UNCHANGED <<sess, addrs>>
      BY <1>10, <2>1 DEF Reject
    <2>5. Idle.at = "idle"
      BY DEF Idle, Doing
    <2> QED
      BY <1>9, <2>1, <2>2, <2>3, <2>4, <2>5
  <1>11. ASSUME NEW p \in Procs, CloseOld(p) PROVE OwnerInv'
    <2>1. \A s \in Dialed : Holds(p, s) <=> s = proc[p].old
      BY <1>11 DEF Holds, At, CloseOld
    <2>2. CASE proc[p].old = None
      <3>1. closed' = closed
        BY <1>11, <2>2 DEF CloseOld
      <3>2. \A s \in Dialed : ~Holds(p, s)
        BY <2>1, <2>2 DEF Dialed, None
      <3>3. /\ proc'[p] = GoesOn(p)
            /\ \A q \in Procs \ {p} : proc'[q] = proc[q]
        BY <1>11, BecomesOne DEF CloseOld
      <3>4. GoesOn(p).at \notin {"install", "bridge", "close"}
        BY DEF GoesOn, Doing, TypeOK
      <3>5. \A q \in Procs : \A s \in Dialed : Holds(q, s)' <=> Holds(q, s)
        BY <3>2, <3>3, <3>4 DEF Holds, At
      <3>6. \A q \in Procs : At(q, "install")' => proc'[q].new # None
        BY <3>3, <3>4 DEF OwnerInv, At
      <3>7. UNCHANGED <<sess, addrs>>
        BY <1>11 DEF CloseOld
      <3> QED
        BY <3>1, <3>5, <3>6, <3>7, OwnerKept
    <2>3. CASE proc[p].old # None
      <3>1. proc[p].old \in Dialed
        <4>1. proc[p].old \in 0..Len(addrs) /\ Len(addrs) \in Nat
          BY DEF TypeOK
        <4> QED
          BY <2>3, <4>1 DEF Dialed, None
      <3>2. proc[p].old # sess
        BY <2>1, <3>1 DEF OwnerInv
      <3>3. GoesOn(p).at \notin {"install", "bridge", "close"}
        BY DEF GoesOn, Doing, TypeOK
      <3>4. closed' = closed \cup ({proc[p].old} \ {None}) /\ Becomes(p, GoesOn(p))
            /\ UNCHANGED <<sess, addrs>>
        BY <1>11 DEF CloseOld
      <3> QED
        BY <1>9, <2>1, <3>1, <3>2, <3>3, <3>4
    <2> QED
      BY <2>2, <2>3
  <1>12. ASSUME NEW p \in Procs, PointBridge(p) PROVE OwnerInv'
    <2>1. /\ proc'[p] = [proc[p] EXCEPT !.at = "close"]
          /\ \A q \in Procs \ {p} : proc'[q] = proc[q]
      BY <1>12, BecomesOne DEF PointBridge
    <2>2. proc'[p].at = "close" /\ proc'[p].old = proc[p].old
      BY <2>1 DEF TypeOK
    <2>3. \A q \in Procs : \A s \in Dialed : Holds(q, s)' <=> Holds(q, s)
      BY <1>12, <2>1, <2>2 DEF Holds, At, PointBridge
    <2>4. \A q \in Procs : At(q, "install")' => proc'[q].new # None
      BY <2>1, <2>2 DEF OwnerInv, At
    <2>5. UNCHANGED <<sess, closed, addrs>>
      BY <1>12 DEF PointBridge
    <2> QED
      BY <2>3, <2>4, <2>5, OwnerKept
  <1>13. ASSUME NEW p \in Procs, ResetSession(p) PROVE OwnerInv'
    BY <1>1, <1>13 DEF ResetSession
  <1>14. ASSUME NEW p \in Procs, Observe(p) PROVE OwnerInv'
    <2>1. GoesOn(p).at \notin {"install", "bridge", "close"}
          /\ [proc[p] EXCEPT !.at = "redirect"].at = "redirect"
      BY DEF GoesOn, Doing, TypeOK
    <2> QED
      BY <1>14, <2>1, OwnerKeptByOne DEF Observe, At
  <1>15. ASSUME NEW p \in Procs, NEW d \in Dialers, StartRedirect(p, d) PROVE OwnerInv'
    <2>1. GoesOn(p).at \notin {"install", "bridge", "close"}
          /\ Dialing("inputs", gen', 0, None).at = "inputs"
      BY DEF GoesOn, Doing, Dialing, TypeOK
    <2>2. \A q \in Procs : proc'[q] = IF q = d THEN Dialing("inputs", gen', 0, None)
                                      ELSE IF q = p THEN GoesOn(p) ELSE proc[q]
      BY <1>15 DEF StartRedirect
    <2>3. \A q \in Procs : \A s \in Dialed : Holds(q, s)' <=> Holds(q, s)
      BY <1>15, <2>1, <2>2 DEF Holds, At, StartRedirect
    <2>4. \A q \in Procs : At(q, "install")' => proc'[q].new # None
      BY <2>1, <2>2 DEF OwnerInv, At
    <2>5. UNCHANGED <<sess, closed, addrs>>
      BY <1>15 DEF StartRedirect
    <2> QED
      BY <2>3, <2>4, <2>5, OwnerKept
  <1>16. CASE UNCHANGED <<sessVars, proc>>
    BY <1>16 DEF OwnerInv, Holds, At, Dialed
  <1>17. ASSUME NEW a \in Actions, Press(a) \/ ReleaseOne(a) \/ ReleaseLast(a) PROVE OwnerInv'
    BY <1>16, <1>17 DEF Press, ReleaseOne, ReleaseLast
  <1>18. CASE ClearTargets \/ UNCHANGED vars
    BY <1>16, <1>18 DEF ClearTargets, vars
  <1> QED
    BY <1>3, <1>4, <1>5, <1>6, <1>7, <1>8, <1>10, <1>11, <1>12, <1>13, <1>14, <1>15, <1>17, <1>18
       DEF Next, Step

\* Dials under way that stay as they are keep what their generation says of
\* their credentials, whether the live session stays or is torn down.
LEMMA AddressKept ==
  ASSUME TypeOK, AddressInv, UNCHANGED addrs, sess' \in {sess, None},
         gen' \in Nat, gen <= gen', creds' # 0 => creds' = version',
         \A q \in Procs : Underway(q)' => proc'[q] = proc[q]
  PROVE AddressInv'
  <1>1. \A q \in Procs : Underway(q)' => Underway(q)
    BY DEF Underway
  <1>2. \A q \in Procs : proc[q].gen \in Nat /\ proc[q].gen <= gen
    BY DEF TypeOK
  <1>3. \A p, q \in Procs :
          Underway(p)' /\ Underway(q)' /\ proc'[p].gen = proc'[q].gen => p = q
    BY <1>1 DEF AddressInv
  <1>4. ASSUME NEW q \in Procs, Underway(q)', proc'[q].gen = gen' PROVE proc[q].gen = gen
    BY <1>2, <1>4 DEF TypeOK
  <1>5. ASSUME NEW q \in Procs, proc'[q].at \in {"dial", "install"}
        PROVE /\ proc'[q].addr # 0
              /\ proc'[q].gen = gen' /\ sess' # None => addrs'[sess'] <= proc'[q].addr
              /\ proc'[q].at = "install" => addrs'[proc'[q].new] = proc'[q].addr
    <2>1. Underway(q)' /\ proc'[q] = proc[q]
      BY <1>5 DEF Underway
    <2> QED
      BY <1>4, <1>5, <2>1 DEF AddressInv, At
  <1> QED
    BY <1>3, <1>5 DEF AddressInv, At

\* A new generation belongs to one dial, and outdates the others
\* (nextVoiceGeneration).
LEMMA AddressTaken ==
  ASSUME TypeOK, AddressInv, UNCHANGED <<addrs, sess, creds, version>>, gen' = gen + 1,
         NEW p \in Procs, proc'[p].at = "inputs", proc'[p].gen = gen',
         \A q \in Procs \ {p} : Underway(q)' => proc'[q] = proc[q]
  PROVE AddressInv'
  <1>1. \A q \in Procs \ {p} : Underway(q)' => Underway(q)
    BY DEF Underway
  <1>2. gen \in Nat /\ \A q \in Procs : proc[q].gen \in Nat /\ proc[q].gen <= gen
    BY DEF TypeOK
  <1>3. \A q \in Procs \ {p} : Underway(q)' => proc'[q].gen # gen'
    BY <1>2
  <1>4. \A q, r \in Procs :
          Underway(q)' /\ Underway(r)' /\ proc'[q].gen = proc'[r].gen => q = r
    BY <1>1, <1>3 DEF AddressInv
  <1>5. ASSUME NEW q \in Procs, proc'[q].at \in {"dial", "install"}
        PROVE /\ proc'[q].addr # 0
              /\ proc'[q].gen = gen' /\ sess' # None => addrs'[sess'] <= proc'[q].addr
              /\ proc'[q].at = "install" => addrs'[proc'[q].new] = proc'[q].addr
    <2>1. q # p /\ Underway(q)' /\ proc'[q] = proc[q]
      BY <1>5 DEF Underway
    <2> QED
      BY <1>3, <1>5, <2>1 DEF AddressInv, At
  <1>6. creds' # 0 => creds' = version'
    BY DEF AddressInv
  <1> QED
    BY <1>4, <1>5, <1>6 DEF AddressInv, At

\* A dial reads the credentials after it took its generation, so the newest one
\* has none that are older than the live session's (nextVoiceGeneration,
\* voiceDialInputs, voiceSessionSwap).
LEMMA AddressNext == TypeOK /\ OwnerInv /\ AddressInv /\ [Next]_vars => AddressInv'
  <1> SUFFICES ASSUME TypeOK, OwnerInv, AddressInv, [Next]_vars PROVE AddressInv'
    OBVIOUS
  <1> USE DEF credVars, sessVars, txVars
  <1>1. gen \in Nat /\ gen <= gen' /\ gen' \in Nat
    BY Growth DEF Grows
  <1>2. ASSUME NEW p \in Procs, NEW r, Becomes(p, r), r.at \notin {"inputs", "dial", "install"},
               UNCHANGED addrs, sess' \in {sess, None}, creds' # 0 => creds' = version'
        PROVE AddressInv'
    <2>1. \A q \in Procs : Underway(q)' => proc'[q] = proc[q]
      BY <1>2, BecomesOne DEF Underway
    <2> QED
      BY <1>1, <1>2, <2>1, AddressKept
  <1>3. creds # 0 => creds = version
    BY DEF AddressInv
  <1>4. \A step, next : Doing(step, next).at = step
    BY DEF Doing
  <1>5. ASSUME NEW p \in Procs, NEW next, Teardown(p, next) PROVE AddressInv'
    <2>1. Swapping(next, None, sess).at = "bridge"
      BY DEF Swapping
    <2> QED
      BY <1>2, <1>3, <1>5, <2>1 DEF Teardown
  <1>6. ASSUME NEW p \in Procs, NEW c, NEW next, StoreCreds(p, c, next), c # 0 => c = version'
        PROVE AddressInv'
    BY <1>2, <1>4, <1>6 DEF StoreCreds
  <1>7. ASSUME NEW b \in Bindings, Call(b) PROVE AddressInv'
    BY <1>5, <1>6, <1>7 DEF Call, Connect, ReconnectVoice, Disconnect, Procs
  <1>8. CASE Redirect \/ SessionEnds
    BY <1>5, <1>6, <1>8 DEF Redirect, SessionEnds, Procs
  <1>9. ASSUME NEW p \in Procs, TakeGen(p) PROVE AddressInv'
    <2>1. /\ proc'[p] = Dialing("inputs", gen', 0, None)
          /\ \A q \in Procs \ {p} : proc'[q] = proc[q]
      BY <1>9, BecomesOne DEF TakeGen
    <2>2. proc'[p].at = "inputs" /\ proc'[p].gen = gen'
      BY <2>1 DEF Dialing
    <2> QED
      BY <1>9, <2>1, <2>2, AddressTaken DEF TakeGen
  <1>10. ASSUME NEW p \in Procs, ReadInputs(p) PROVE AddressInv'
    <2>1. CASE creds = 0
      BY <1>2, <1>3, <1>4, <1>10, <2>1 DEF ReadInputs, Idle
    <2>2. CASE creds # 0
      <3>1. /\ proc'[p] = Dialing("dial", proc[p].gen, creds, None)
            /\ \A q \in Procs \ {p} : proc'[q] = proc[q]
        BY <1>10, <2>2, BecomesOne DEF ReadInputs
      <3>2. proc'[p].at = "dial" /\ proc'[p].gen = proc[p].gen /\ proc'[p].addr = creds
        BY <3>1 DEF Dialing
      <3>3. UNCHANGED <<creds, version, gen, sess, addrs>>
        BY <1>10 DEF ReadInputs
      <3>4. Underway(p) /\ \A q \in Procs : Underway(q)' <=> Underway(q)
        BY <1>10, <3>1, <3>2 DEF Underway, ReadInputs, At
      <3>5. \A q, r \in Procs :
              Underway(q)' /\ Underway(r)' /\ proc'[q].gen = proc'[r].gen => q = r
        BY <3>1, <3>2, <3>4 DEF AddressInv
      <3>6. sess # None => addrs[sess] <= creds
        BY <1>3, <2>2 DEF TypeOK, None
      <3>7. ASSUME NEW q \in Procs, proc'[q].at \in {"dial", "install"}
            PROVE /\ proc'[q].addr # 0
                  /\ proc'[q].gen = gen' /\ sess' # None => addrs'[sess'] <= proc'[q].addr
                  /\ proc'[q].at = "install" => addrs'[proc'[q].new] = proc'[q].addr
        BY <2>2, <3>1, <3>2, <3>3, <3>6, <3>7 DEF AddressInv, At
      <3> QED
        BY <1>3, <3>3, <3>5, <3>7 DEF AddressInv, At
    <2> QED
      BY <2>1, <2>2
  <1>11. ASSUME NEW p \in Procs, Dial(p) PROVE AddressInv'
    <2>1. CASE UNCHANGED addrs /\ Becomes(p, Idle)
      BY <1>2, <1>3, <1>4, <1>11, <2>1 DEF Dial, Idle
    <2>2. CASE addrs' = Append(addrs, proc[p].addr)
               /\ Becomes(p, Dialing("install", proc[p].gen, proc[p].addr, Len(addrs')))
      <3>1. Len(addrs) \in Nat /\ Len(addrs') = Len(addrs) + 1 /\ addrs'[Len(addrs')] = proc[p].addr
        BY <2>2 DEF TypeOK
      <3>2. \A i \in 1..Len(addrs) : addrs'[i] = addrs[i]
        BY Growth DEF Grows
      <3>3. /\ proc'[p].at = "install" /\ proc'[p].new = Len(addrs')
            /\ proc'[p].gen = proc[p].gen /\ proc'[p].addr = proc[p].addr
            /\ \A q \in Procs \ {p} : proc'[q] = proc[q]
        BY <2>2, BecomesOne DEF Dialing
      <3>4. UNCHANGED <<creds, version, gen, sess>>
        BY <1>11 DEF Dial
      <3>5. \A q \in Procs : Underway(q)' <=> Underway(q)
        BY <1>11, <3>3 DEF Underway, Dial, At
      <3>6. \A q, r \in Procs :
              Underway(q)' /\ Underway(r)' /\ proc'[q].gen = proc'[r].gen => q = r
        BY <3>3, <3>5 DEF AddressInv
      <3>7. sess # None => addrs'[sess] = addrs[sess]
        BY <3>1, <3>2 DEF TypeOK, None
      <3>8. \A q \in Procs : At(q, "install") => addrs'[proc[q].new] = addrs[proc[q].new]
        <4>1. \A q \in Procs : proc[q].new \in 0..Len(addrs)
          BY DEF TypeOK
        <4>2. \A q \in Procs : At(q, "install") => proc[q].new \in 1..Len(addrs)
          BY <3>1, <4>1 DEF OwnerInv, None
        <4> QED
          BY <3>2, <4>2
      <3>9. ASSUME NEW q \in Procs, proc'[q].at \in {"dial", "install"}
            PROVE /\ proc'[q].addr # 0
                  /\ proc'[q].gen = gen' /\ sess' # None => addrs'[sess'] <= proc'[q].addr
                  /\ proc'[q].at = "install" => addrs'[proc'[q].new] = proc'[q].addr
        <4>1. CASE q = p
          <5>1. proc[p].addr # 0 /\ (proc[p].gen = gen /\ sess # None => addrs[sess] <= proc[p].addr)
            BY <1>11 DEF Dial, AddressInv, At
          <5> QED
            BY <3>1, <3>3, <3>4, <3>7, <4>1, <5>1
        <4>2. CASE q # p
          <5>1. proc'[q] = proc[q]
            BY <3>3, <4>2
          <5>2. /\ proc[q].addr # 0
                /\ proc[q].gen = gen /\ sess # None => addrs[sess] <= proc[q].addr
                /\ proc[q].at = "install" => addrs[proc[q].new] = proc[q].addr
            BY <3>9, <5>1 DEF AddressInv, At
          <5> QED
            BY <3>4, <3>7, <3>8, <5>1, <5>2 DEF At
        <4> QED
          BY <4>1, <4>2
      <3> QED
        BY <1>3, <3>4, <3>6, <3>9 DEF AddressInv, At
    <2> QED
      BY <1>11, <2>1, <2>2 DEF Dial
  <1>12. ASSUME NEW p \in Procs, Install(p) PROVE AddressInv'
    <2>1. /\ proc'[p].at = "bridge"
          /\ \A q \in Procs \ {p} : proc'[q] = proc[q]
      BY <1>12, BecomesOne DEF Install, Swapping
    <2>2. UNCHANGED <<creds, version, gen, addrs>> /\ Underway(p) /\ proc[p].gen = gen
      BY <1>12 DEF Install, Underway, At, StaleGen
    <2>3. ASSUME NEW q \in Procs, Underway(q)'
          PROVE q # p /\ proc'[q] = proc[q] /\ Underway(q) /\ proc[q].gen # gen
      BY <2>1, <2>2, <2>3 DEF Underway, AddressInv
    <2>4. \A q, r \in Procs :
            Underway(q)' /\ Underway(r)' /\ proc'[q].gen = proc'[r].gen => q = r
      BY <2>3 DEF AddressInv
    <2>5. ASSUME NEW q \in Procs, proc'[q].at \in {"dial", "install"}
          PROVE /\ proc'[q].addr # 0 /\ proc'[q].gen # gen'
                /\ proc'[q].at = "install" => addrs'[proc'[q].new] = proc'[q].addr
      <3>1. Underway(q)'
        BY <2>5 DEF Underway
      <3> QED
        BY <2>2, <2>3, <2>5, <3>1 DEF AddressInv, At
    <2> QED
      BY <1>3, <2>2, <2>4, <2>5 DEF AddressInv, At
  <1>13. ASSUME NEW p \in Procs, Reject(p) PROVE AddressInv'
    BY <1>2, <1>3, <1>4, <1>13 DEF Reject, Idle
  <1>14. ASSUME NEW p \in Procs, PointBridge(p) PROVE AddressInv'
    <2>1. [proc[p] EXCEPT !.at = "close"].at = "close"
      BY DEF TypeOK
    <2> QED
      BY <1>2, <1>3, <1>14, <2>1 DEF PointBridge
  <1>15. \A p \in Procs : GoesOn(p).at \notin {"inputs", "dial", "install"}
    BY <1>4 DEF GoesOn, TypeOK
  <1>16. ASSUME NEW p \in Procs, CloseOld(p) PROVE AddressInv'
    BY <1>2, <1>3, <1>15, <1>16 DEF CloseOld
  <1>17. ASSUME NEW p \in Procs, ResetSession(p) PROVE AddressInv'
    BY <1>6, <1>17 DEF ResetSession
  <1>18. ASSUME NEW p \in Procs, Observe(p) PROVE AddressInv'
    <2>1. [proc[p] EXCEPT !.at = "redirect"].at = "redirect"
      BY DEF TypeOK
    <2> QED
      BY <1>2, <1>3, <1>15, <1>18, <2>1 DEF Observe
  <1>19. ASSUME NEW p \in Procs, NEW d \in Dialers, StartRedirect(p, d) PROVE AddressInv'
    <2>1. \A q \in Procs : proc'[q] = IF q = d THEN Dialing("inputs", gen', 0, None)
                                      ELSE IF q = p THEN GoesOn(p) ELSE proc[q]
      BY <1>19 DEF StartRedirect
    <2>2. d \in Procs /\ proc'[d].at = "inputs" /\ proc'[d].gen = gen'
      BY <2>1 DEF Dialing, Procs
    <2>3. \A q \in Procs \ {d} : Underway(q)' => proc'[q] = proc[q]
      BY <1>15, <2>1 DEF Underway
    <2> QED
      BY <1>19, <2>2, <2>3, AddressTaken DEF StartRedirect
  <1>20. CASE UNCHANGED <<credVars, sessVars, proc>>
    BY <1>1, <1>3, <1>20, AddressKept
  <1>21. ASSUME NEW a \in Actions, Press(a) \/ ReleaseOne(a) \/ ReleaseLast(a) PROVE AddressInv'
    BY <1>20, <1>21 DEF Press, ReleaseOne, ReleaseLast
  <1>22. CASE ClearTargets \/ UNCHANGED vars
    BY <1>20, <1>22 DEF ClearTargets, vars
  <1> QED
    BY <1>7, <1>8, <1>9, <1>10, <1>11, <1>12, <1>13, <1>14, <1>16, <1>17, <1>18, <1>19, <1>21, <1>22
       DEF Next, Step

\* Presses, releases and the clear keep the live session's targets those of
\* the actions held (txPress, txRelease, clearTXTargetsIfStillIdle).
LEMMA TransmissionNext ==
  TypeOK /\ OwnerInv /\ TransmissionsFollowSession /\ [Next]_vars => TransmissionsFollowSession'
  <1> SUFFICES ASSUME TypeOK, OwnerInv, TransmissionsFollowSession, [Next]_vars
               PROVE TransmissionsFollowSession'
    OBVIOUS
  <1> USE DEF TransmissionsFollowSession, TransmissionKeepsTargets, LogEndsWithSession,
              credVars, sessVars, txVars
  <1>1. ASSUME NEW p \in Procs, NEW next, Teardown(p, next) PROVE TransmissionsFollowSession'
    BY <1>1 DEF Teardown, FlushedLog
  <1>2. ASSUME NEW b \in Bindings, Call(b) PROVE TransmissionsFollowSession'
    BY <1>1, <1>2 DEF Call, Connect, ReconnectVoice, Disconnect, StoreCreds, Procs
  <1>3. CASE Redirect \/ SessionEnds
    BY <1>1, <1>3 DEF Redirect, SessionEnds, StoreCreds, Procs
  <1>4. ASSUME NEW p \in Procs, Install(p) PROVE TransmissionsFollowSession'
    <2>1. proc[p].new # None
      BY <1>4 DEF Install, OwnerInv
    <2> QED
      BY <1>4, <2>1 DEF Install
  <1>5. ASSUME NEW p \in Procs, Step(p), ~Install(p) PROVE TransmissionsFollowSession'
    <2>1. UNCHANGED <<sess, txVars>>
      BY <1>5 DEF Step, TakeGen, ReadInputs, Dial, Reject, PointBridge, CloseOld, ResetSession,
                  StoreCreds, Observe, StartRedirect
    <2> QED
      BY <2>1
  <1>6. ASSUME NEW a \in Actions, Press(a) \/ ReleaseOne(a) PROVE TransmissionsFollowSession'
    BY <1>6 DEF Press, ReleaseOne, InstallTargets
  <1>7. ASSUME NEW a \in Actions, ReleaseLast(a) PROVE TransmissionsFollowSession'
    BY <1>7 DEF ReleaseLast
  <1>8. CASE ClearTargets
    BY <1>8 DEF ClearTargets, ClearIfIdle, InstallTargets
  <1>9. CASE UNCHANGED vars
    BY <1>9 DEF vars
  <1> QED
    BY <1>2, <1>3, <1>4, <1>5, <1>6, <1>7, <1>8, <1>9 DEF Next

\* Nothing is live, dialed or held at the start.
LEMMA InitInv == Init => IInv
  <1> SUFFICES ASSUME Init PROVE IInv
    OBVIOUS
  <1>1. TypeOK
    <2>1. addrs \in Seq(1..version) /\ Len(addrs) = 0 /\ gen = 0 /\ version = 0
      BY DEF Init
    <2>2. Idle \in Locals /\ proc = [p \in Procs |-> Idle]
      BY <2>1 DEF Init, Idle, Doing, Locals, None
    <2>3. proc \in [Procs -> Locals]
      BY <2>2
    <2>4. FieldsOK
      <3>1. (sess \in 0..Len(addrs) /\ bridge \in 0..Len(addrs) /\ closed \subseteq 1..Len(addrs))
        BY <2>1 DEF Init, None
      <3>2. ops \in 0..MaxOps /\ version \in 0..ops /\ creds \in 0..version
        BY PlaneAssumption DEF Init
      <3> QED
        BY <3>1, <3>2 DEF Init, FieldsOK
    <2> QED
      BY <2>1, <2>3, <2>4 DEF TypeOK, FieldsOK, Locals
  <1>2. OwnerInv
    BY DEF Init, OwnerInv, Dialed, Holds, At, Idle, Doing, None
  <1>3. AddressInv
    BY DEF Init, AddressInv, Underway, At, Idle, Doing, None
  <1>4. TransmissionsFollowSession
    BY DEF Init, TransmissionsFollowSession, TransmissionKeepsTargets, LogEndsWithSession, None
  <1> QED
    BY <1>1, <1>2, <1>3, <1>4 DEF IInv

\* The invariant of voiceState and of the goroutines that replace the session.
THEOREM Invariance == Spec => []IInv
  <1>1. IInv /\ [Next]_vars => IInv'
    BY TypeNext, OwnerNext, AddressNext, TransmissionNext DEF IInv
  <1> QED
    BY <1>1, InitInv, PTL DEF Spec

\* voiceState, the bridge and the goroutines' locals keep their types.
THEOREM TypeCorrect == Spec => []TypeOK
  <1>1. IInv => TypeOK
    BY DEF IInv
  <1> QED
    BY <1>1, Invariance, PTL

\* Whatever overlaps, once nothing is under way every session that was dialed
\* has been closed, but the live one (setVoiceSession, voiceSessionSwap).
THEOREM SessionsAreClosed == Spec => []OneSessionOpen
  <1>1. IInv => OneSessionOpen
    <2> SUFFICES ASSUME IInv, AtRest PROVE DOMAIN addrs \ closed = {sess} \ {None}
      BY DEF OneSessionOpen
    <2>1. DOMAIN addrs = Dialed /\ closed \subseteq Dialed
      BY DEF Dialed, IInv, TypeOK
    <2>2. \A s \in Dialed : \A p \in Procs : ~Holds(p, s)
      BY DEF AtRest, Holds, At
    <2>3. \A s \in Dialed : s \in closed <=> s # sess
      BY <2>2 DEF IInv, OwnerInv
    <2>4. sess # None => sess \in Dialed
      BY DEF IInv, TypeOK, Dialed, None
    <2>5. None \notin Dialed
      BY DEF Dialed, None
    <2> QED
      BY <2>1, <2>3, <2>4, <2>5
  <1> QED
    BY <1>1, Invariance, PTL

\* Of overlapping redirects and reconnects, the one with the older credentials
\* never replaces the one with the newer (voiceSessionSwap, voice.go:814-829).
THEOREM NewerAddressStays == Spec => NeverBackToOlderAddress
  <1>1. IInv /\ [Next]_vars
          => [sess # None /\ sess' # None /\ sess' # sess => addrs[sess'] >= addrs[sess]]_vars
    <2> SUFFICES ASSUME IInv, [Next]_vars, sess # None, sess' # None, sess' # sess
                 PROVE addrs[sess'] >= addrs[sess]
      OBVIOUS
    <2>1. PICK p \in Procs : Install(p)
      <3>1. ASSUME NEW p \in Procs, Step(p), ~Install(p) PROVE sess' = sess
        BY <3>1 DEF Step, TakeGen, ReadInputs, Dial, Reject, PointBridge, CloseOld, ResetSession,
                    StoreCreds, Observe, StartRedirect, sessVars
      <3>2. ASSUME NEW b \in Bindings, Call(b) PROVE sess' \in {sess, None}
        BY <3>2 DEF Call, Connect, ReconnectVoice, Disconnect, StoreCreds, Teardown, sessVars
      <3>3. Redirect \/ SessionEnds => sess' \in {sess, None}
        BY DEF Redirect, SessionEnds, StoreCreds, Teardown, sessVars
      <3>4. ASSUME NEW a \in Actions, Press(a) \/ ReleaseOne(a) \/ ReleaseLast(a) PROVE sess' = sess
        BY <3>4 DEF Press, ReleaseOne, ReleaseLast, sessVars
      <3>5. ClearTargets \/ UNCHANGED vars => sess' = sess
        BY DEF ClearTargets, vars, sessVars
      <3> QED
        BY <3>1, <3>2, <3>3, <3>4, <3>5 DEF Next
    <2>2. proc[p].gen = gen /\ sess' = proc[p].new /\ proc[p].at = "install"
      BY <2>1 DEF Install, StaleGen, At
    <2>3. addrs[sess] <= proc[p].addr /\ addrs[sess'] = proc[p].addr
      BY <2>2 DEF IInv, AddressInv, At
    <2>4. addrs[sess] \in Nat /\ proc[p].addr \in Nat
      BY DEF IInv, TypeOK, None
    <2> QED
      BY <2>3, <2>4
  <1> QED
    BY <1>1, Invariance, PTL DEF Spec, NeverBackToOlderAddress

\* What this client transmits is addressed, and logged, by the session that is
\* installed (installTXTargetsLocked, clearTXTargetsIfStillIdle).
THEOREM TransmissionsFollow == Spec => []TransmissionsFollowSession
  <1>1. IInv => TransmissionsFollowSession
    BY DEF IInv
  <1> QED
    BY <1>1, Invariance, PTL
=============================================================================
