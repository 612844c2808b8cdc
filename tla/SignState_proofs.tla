---------------------------- MODULE SignState_proofs ----------------------------
(***************************************************************************)
(* Safety of the signing without coordinator for every set of parties,     *)
(* faulty or not, every set of signers, and channels that lose, repeat and *)
(* reorder messages at will; and that it implements Signing.               *)
(*                                                                         *)
(* The argument follows a message from its sender to the round that        *)
(* consumes it: what is on a channel (Carried), stored (Held) or queued    *)
(* (Queued) has been sent by the party it names, and the round sees only   *)
(* messages of its own type.  An honest party sends one commitment and one *)
(* share, for the commitments it has in round 2 (HonestSent), and these    *)
(* were sent by the signers they belong to (ViewBacked).                   *)
(***************************************************************************)
EXTENDS SignState, SequenceTheorems, TLAPS

IsMap(f) == f = [p \in Honest |-> f[p]]

Maps == IsMap(received) /\ IsMap(queue) /\ IsMap(channel)

\* A party that does not sign runs nothing.
Absent ==
    \A p \in Honest : p \notin Signers =>
        pc[p] = "Absent" /\ ~timer[p] /\ ~callback[p] /\ ~ending[p] /\ ~done[p]

\* Nobody sends in another's name.
Authored == \A q \in Parties : \A m \in sent[q] : m.from = q

Carried ==
    \A p \in Honest : \A i \in DOMAIN channel[p] :
        /\ channel[p][i].from \in Others(p)
        /\ channel[p][i] \in sent[channel[p][i].from]

\* What the current round has received; nothing can replace the entries that
\* NewBaseState made, so that nothing is received in round 0.
Held ==
    \A p \in Honest : \A q \in Others(p) :
        IF roundNumber[p] = 0 THEN received[p][q] = NilMsg
        ELSE received[p][q] # Nobody =>
                received[p][q] \in sent[q] /\ received[p][q].type = roundNumber[p]

Queued ==
    \A p \in Honest : \A t \in 1 .. 2 : \A q \in Others(p) :
        queue[p][t][q] # Nobody => queue[p][t][q] \in sent[q] /\ queue[p][t][q].type = t

HonestSent ==
    \A p \in Honest :
        /\ \A m \in sent[p] : \/ m = Sign1(p, "D")
                              \/ roundNumber[p] = 2 /\ m = Sign2(p, view[p])
        /\ roundNumber[p] = 2 => Sign2(p, view[p]) \in sent[p]

ViewBacked ==
    \A p \in Honest : roundNumber[p] = 2 =>
        /\ view[p][p] = "D"
        /\ \A q \in Others(p) : Sign1(q, view[p][q]) \in sent[q]
        /\ \A q \in Parties \ Signers : view[p][q] = Nobody

\* A signature is for the commitments of round 2, and backed by shares.
OutputBacked ==
    \A p \in Honest : output[p] # Nobody =>
        /\ p \in Signers
        /\ roundNumber[p] = 2
        /\ output[p] = view[p]
        /\ \A q \in Signers : Sign2(q, output[p]) \in sent[q]

\* WaitForError has seen done, and err no longer changes after that.
Waited ==
    \A p \in Waiters :
        /\ wait[p] \in {"checked", "returned"} => done[p]
        /\ wait[p] = "returned" => seen[p] = err[p]

IInv ==
    /\ Maps /\ TypeOK /\ Absent
    /\ Authored /\ Carried /\ Held /\ Queued
    /\ HonestSent /\ ViewBacked /\ OutputBacked
    /\ OutputOrError /\ BlameSound /\ Waited

-----------------------------------------------------------------------------
(* The state machine's vocabulary *)

\* RemoveAt leaves a sequence of elements of the one it is applied to.
LEMMA RemoveAtElements ==
    ASSUME NEW S, NEW s \in Seq(S), NEW i \in DOMAIN s
    PROVE  /\ RemoveAt(s, i) \in Seq(S)
           /\ \A j \in DOMAIN RemoveAt(s, i) : \E k \in DOMAIN s : RemoveAt(s, i)[j] = s[k]
<1> DEFINE a == SubSeq(s, 1, i - 1)
           b == SubSeq(s, i + 1, Len(s))
<1>1. i \in 1 .. Len(s) /\ Len(s) \in Nat
  BY LenProperties
<1>2. a \in Seq(S) /\ Len(a) = i - 1 /\ \A j \in 1 .. i - 1 : a[j] = s[j]
  BY <1>1, SubSeqProperties
<1>3. b \in Seq(S) /\ Len(b) = Len(s) - i /\ \A j \in 1 .. Len(s) - i : b[j] = s[i + j]
  BY <1>1, SubSeqProperties
<1>4. RemoveAt(s, i) = a \o b
  BY DEF RemoveAt
<1> HIDE DEF a, b
<1>5. a \o b \in Seq(S) /\ Len(a \o b) = Len(s) - 1
  BY <1>1, <1>2, <1>3, ConcatProperties
<1>6. ASSUME NEW j \in DOMAIN (a \o b)
      PROVE  \E k \in DOMAIN s : (a \o b)[j] = s[k]
  <2>1. j \in 1 .. Len(s) - 1
    BY <1>1, <1>5, LenProperties
  <2>2. CASE j <= i - 1
    <3>1. (a \o b)[j] = a[j] /\ a[j] = s[j]
      BY <1>1, <1>2, <1>3, <2>1, <2>2, ConcatProperties
    <3> QED
      BY <1>1, <2>1, <3>1, LenProperties
  <2>3. CASE j > i - 1
    <3>1. (a \o b)[j] = b[j - (i - 1)]
      BY <1>1, <1>2, <1>3, <2>1, <2>3, ConcatProperties
    <3>2. j - (i - 1) \in 1 .. Len(s) - i
      BY <1>1, <2>1, <2>3
    <3>3. b[j - (i - 1)] = s[i + (j - (i - 1))] /\ i + (j - (i - 1)) \in 1 .. Len(s)
      BY <1>1, <1>3, <2>1, <2>3, <3>2
    <3> QED
      BY <3>1, <3>3, LenProperties
  <2> QED
    BY <1>1, <2>1, <2>2, <2>3
<1> QED
  BY <1>4, <1>5, <1>6

\* Nobody is none of the values it stands in for.
LEMMA Distinct ==
    /\ Nobody \notin Messages /\ Nobody # NilMsg
    /\ Nobody \notin Errors /\ Nobody \notin Views /\ Nobody \notin Commitments
    /\ "D" \in Commitments /\ "identity" \in Commitments
    /\ Garbage \in Views
BY NobodyAssumption DEF Garbage, Views, Commitments

\* What Sign1 and Sign2 make are messages, of different types.
LEMMA MessageShape ==
    ASSUME NEW q \in Parties
    PROVE  /\ \A c \in Commitments : Sign1(q, c) \in Messages
           /\ \A z \in Views : Sign2(q, z) \in Messages
           /\ \A m \in Messages : m.type \in 1 .. 2
           /\ \A m \in Messages : m.from = q /\ m.type = 1 =>
                  m.commitment \in Commitments /\ m = Sign1(q, m.commitment)
           /\ \A m \in Messages : m.from = q /\ m.type = 2 =>
                  m.share \in Views /\ m = Sign2(q, m.share)
BY DEF Messages, Sign1, Sign2

\* The initial states satisfy the invariant.
LEMMA InitIInv == Init => IInv
<1> SUFFICES ASSUME Init PROVE IInv
  OBVIOUS
<1> USE SignAssumption DEF Init
<1>1. Maps
  BY DEF Maps, IsMap
<1>2. TypeOK
  <2>1. \A p \in Honest :
          /\ received[p] \in [Others(p) -> Messages \cup {NilMsg, Nobody}]
          /\ queue[p] \in [1 .. 2 -> [Others(p) -> Messages \cup {Nobody}]]
          /\ channel[p] \in Seq(Messages)
    BY DEF NoMessages
  <2>2. view \in [Honest -> Views]
    BY DEF Views
  <2>3. {done, timer, callback, ending} \subseteq [Honest -> BOOLEAN]
    BY DEF Signers
  <2>4. pc \in [Honest -> {"Absent", "Receive", "ProcessAll"}]
    <3>1. env.loop \in {"Handler", "MessageRoutine"}
      BY DEF Env
    <3> QED
      BY <3>1
  <2>5. /\ env \in Envs /\ dups \in 0 .. MaxDup /\ roundNumber \in [Honest -> 0 .. 2]
        /\ output \in [Honest -> Views \cup {Nobody}]
        /\ err \in [Honest -> Errors \cup {Nobody}]
        /\ wait \in [Waiters -> {"started", "blocked", "checked", "returned"}]
        /\ seen \in [Waiters -> Errors \cup {Nobody}]
    OBVIOUS
  <2>6. sent \in [Parties -> SUBSET Messages]
    OBVIOUS
  <2> QED
    BY ONLY <2>1, <2>2, <2>3, <2>4, <2>5, <2>6 DEF TypeOK
<1>3. Absent
  BY DEF Absent, Signers
<1>4. Authored /\ Carried /\ Held /\ Queued
  BY DEF Authored, Carried, Held, Queued, NoMessages
<1>5. HonestSent /\ ViewBacked /\ OutputBacked /\ OutputOrError /\ BlameSound /\ Waited
  BY DEF HonestSent, ViewBacked, OutputBacked, OutputOrError, BlameSound, Waited, Honest
<1> QED
  BY <1>1, <1>2, <1>3, <1>4, <1>5 DEF IInv

-----------------------------------------------------------------------------
(* One lemma per action *)

\* The invariant's parts that only speak of what has been sent, received and
\* computed; the others depend on the threads and on the result.
Protocol ==
    /\ Maps /\ Authored /\ Carried /\ Held /\ Queued
    /\ HonestSent /\ ViewBacked /\ OutputBacked

\* They hold as long as the following variables do not change.
LEMMA ProtocolFrame ==
    Protocol /\ UNCHANGED <<roundNumber, received, queue, view, output, channel, sent, env>>
        => Protocol'
BY DEF Protocol, Maps, IsMap, Authored, Carried, Held, Queued, HonestSent, ViewBacked,
       OutputBacked, Others, Signers

\* A step that changes nothing.
LEMMA StutterIInv == IInv /\ UNCHANGED vars => IInv'
<1> SUFFICES ASSUME IInv, UNCHANGED vars PROVE IInv'
  OBVIOUS
<1> USE DEF vars, state, threads
<1>1. Protocol'
  BY ProtocolFrame DEF IInv, Protocol
<1>2. TypeOK'
  BY DEF IInv, TypeOK, Others, Signers
<1>3. Absent' /\ OutputOrError' /\ BlameSound' /\ Waited'
  BY DEF IInv, Absent, OutputOrError, BlameSound, Equivocated, Waited, Signers
<1> QED
  BY <1>1, <1>2, <1>3 DEF IInv, Protocol

\* A lost message.
LEMMA LoseIInv == ASSUME NEW p \in Honest PROVE IInv /\ Lose(p) => IInv'
<1> SUFFICES ASSUME IInv, Lose(p) PROVE IInv'
  OBVIOUS
<1> USE DEF state, threads
<1>1. PICK i \in DOMAIN channel[p] : channel' = [channel EXCEPT ![p] = RemoveAt(@, i)]
  BY DEF Lose, Arrivals
<1>2. channel \in [Honest -> Seq(Messages)]
  BY DEF IInv, TypeOK, Maps, IsMap
<1>3. channel' = [r \in Honest |-> IF r = p THEN RemoveAt(channel[p], i) ELSE channel[r]]
  BY <1>1, <1>2
<1>4. /\ RemoveAt(channel[p], i) \in Seq(Messages)
      /\ \A j \in DOMAIN RemoveAt(channel[p], i) :
             \E k \in DOMAIN channel[p] : RemoveAt(channel[p], i)[j] = channel[p][k]
  BY <1>1, <1>2, RemoveAtElements
<1> HIDE DEF state, threads
<1>5. UNCHANGED <<roundNumber, received, queue, done, err, view, output, timer, callback,
                  pc, ending, wait, seen, dups, sent, env>>
  BY DEF Lose, state, threads
<1>6. Carried'
  BY <1>3, <1>4, <1>5 DEF IInv, Carried, Others, Signers
<1>7. TypeOK'
  BY <1>3, <1>4, <1>5 DEF IInv, TypeOK, Others, Signers
<1>8. Maps' /\ Authored' /\ Held' /\ Queued' /\ HonestSent' /\ ViewBacked' /\ OutputBacked'
  BY <1>3, <1>5 DEF IInv, Maps, IsMap, Authored, Held, Queued, HonestSent, ViewBacked,
                    OutputBacked, Others, Signers
<1>9. Absent' /\ OutputOrError' /\ BlameSound' /\ Waited'
  BY <1>5 DEF IInv, Absent, OutputOrError, BlameSound, Equivocated, Waited, Signers
<1> QED
  BY <1>6, <1>7, <1>8, <1>9 DEF IInv

\* The timer runs out and its callback waits for the mutex.
LEMMA ExpireIInv == ASSUME NEW p \in Honest PROVE IInv /\ Expire(p) => IInv'
<1> SUFFICES ASSUME IInv, Expire(p) PROVE IInv'
  OBVIOUS
<1>1. UNCHANGED <<roundNumber, received, queue, done, err, view, output, pc, ending, wait,
                  seen, channel, dups, sent, env>>
  BY DEF Expire, state
<1>2. /\ timer \in [Honest -> BOOLEAN] /\ callback \in [Honest -> BOOLEAN]
      /\ timer[p]
      /\ timer' = [timer EXCEPT ![p] = FALSE] /\ callback' = [callback EXCEPT ![p] = TRUE]
  BY DEF IInv, TypeOK, Expire
<1>3. Protocol'
  BY <1>1, ProtocolFrame DEF IInv, Protocol
<1>4. TypeOK'
  <2>1. timer' \in [Honest -> BOOLEAN] /\ callback' \in [Honest -> BOOLEAN]
    BY <1>2
  <2> QED
    BY <1>1, <2>1 DEF IInv, TypeOK, Others, Signers
<1>5. Absent'
  BY <1>1, <1>2 DEF IInv, Absent, Signers
<1>6. OutputOrError' /\ BlameSound' /\ Waited'
  BY <1>1 DEF IInv, OutputOrError, BlameSound, Equivocated, Waited
<1> QED
  BY <1>3, <1>4, <1>5, <1>6 DEF IInv, Protocol

\* finish, as a step of its own after the result was written.
LEMMA FinishIInv == ASSUME NEW p \in Honest PROVE IInv /\ Finish(p) => IInv'
<1> SUFFICES ASSUME IInv, Finish(p) PROVE IInv'
  OBVIOUS
<1>1. UNCHANGED <<roundNumber, received, queue, err, view, output, callback, pc, wait,
                  seen, channel, dups, sent, env>>
  BY DEF Finish
<1>2. /\ timer \in [Honest -> BOOLEAN] /\ ending \in [Honest -> BOOLEAN]
      /\ done \in [Honest -> BOOLEAN]
      /\ ending[p]
      /\ timer' = [timer EXCEPT ![p] = FALSE]
      /\ done' = [done EXCEPT ![p] = TRUE]
      /\ ending' = [ending EXCEPT ![p] = FALSE]
  BY DEF IInv, TypeOK, Finish
<1>3. Protocol'
  BY <1>1, ProtocolFrame DEF IInv, Protocol
<1>4. TypeOK'
  <2>1. timer' \in [Honest -> BOOLEAN] /\ done' \in [Honest -> BOOLEAN]
        /\ ending' \in [Honest -> BOOLEAN]
    BY <1>2
  <2> QED
    BY <1>1, <2>1 DEF IInv, TypeOK, Others, Signers
<1>5. Absent'
  BY <1>1, <1>2 DEF IInv, Absent, Signers
<1>6. OutputOrError' /\ BlameSound'
  BY <1>1, <1>2 DEF IInv, OutputOrError, BlameSound, Equivocated
<1>7. Waited'
  BY <1>1, <1>2, SignAssumption DEF IInv, Waited, Honest
<1> QED
  BY <1>3, <1>4, <1>5, <1>6, <1>7 DEF IInv, Protocol

\* WaitForError looks at done and err without the mutex.
LEMMA WaitForErrorIInv == ASSUME NEW p \in Waiters PROVE IInv /\ WaitForError(p) => IInv'
<1> SUFFICES ASSUME IInv, WaitForError(p) PROVE IInv'
  OBVIOUS
<1>1. UNCHANGED <<roundNumber, received, queue, done, err, view, output, timer, callback,
                  pc, ending, channel, dups, sent, env>>
  BY DEF WaitForError, state
<1>2. p \in Honest
  BY SignAssumption DEF Honest
<1>3. Protocol'
  BY <1>1, ProtocolFrame DEF IInv, Protocol
<1>4. TypeOK' /\ Waited'
  <2>1. /\ wait \in [Waiters -> {"started", "blocked", "checked", "returned"}]
        /\ seen \in [Waiters -> Errors \cup {Nobody}]
        /\ err[p] \in Errors \cup {Nobody}
    BY <1>2 DEF IInv, TypeOK
  <2>2. /\ wait' \in [Waiters -> {"started", "blocked", "checked", "returned"}]
        /\ seen' \in [Waiters -> Errors \cup {Nobody}]
    BY <2>1 DEF WaitForError
  <2>3. TypeOK'
    BY <1>1, <2>2 DEF IInv, TypeOK, Others, Signers
  <2>4. Waited'
    BY <1>1, <2>1 DEF IInv, Waited, WaitForError, Unblocks
  <2> QED
    BY <2>3, <2>4
<1>5. Absent' /\ OutputOrError' /\ BlameSound'
  BY <1>1 DEF IInv, Absent, OutputOrError, BlameSound, Equivocated, Signers
<1> QED
  BY <1>3, <1>4, <1>5 DEF IInv, Protocol

\* finish makes p done, or about to be, and leaves the others alone.
LEMMA FinishEffect ==
    ASSUME IInv, NEW p \in Honest, finish(p)
    PROVE  /\ timer' \in [Honest -> BOOLEAN] /\ done' \in [Honest -> BOOLEAN]
           /\ ending' \in [Honest -> BOOLEAN]
           /\ done'[p] \/ ending'[p]
           /\ done[p] => done'[p]
           /\ \A r \in Honest \ {p} :
                 timer'[r] = timer[r] /\ done'[r] = done[r] /\ ending'[r] = ending[r]
<1>1. /\ timer \in [Honest -> BOOLEAN] /\ done \in [Honest -> BOOLEAN]
      /\ ending \in [Honest -> BOOLEAN]
  BY DEF IInv, TypeOK
<1>2. CASE /\ done' = [done EXCEPT ![p] = TRUE]
           /\ timer' = [timer EXCEPT ![p] = FALSE]
           /\ ending' = ending
  BY <1>1, <1>2
<1>3. CASE /\ ending' = [ending EXCEPT ![p] = TRUE]
           /\ done' = done /\ timer' = timer
  BY <1>1, <1>3
<1> QED
  BY <1>2, <1>3 DEF finish

\* An error that names a faulty party, or nobody, or is reported after
\* somebody has equivocated.
LEMMA ReportErrorIInv ==
    ASSUME IInv, NEW p \in Honest, p \in Signers, ~done[p], ~ending[p],
           NEW culprit \in Parties \cup {Nobody}, reportError(p, culprit),
           culprit \in Faulty \cup {Nobody} \/ Equivocated,
           pc' \in [Honest -> {"Absent", "Receive", "ProcessAll"}],
           callback' \in [Honest -> BOOLEAN],
           \A r \in Honest \ {p} : pc'[r] = pc[r] /\ callback'[r] = callback[r],
           UNCHANGED <<wait, seen, channel, dups, sent, env>>
    PROVE  IInv'
<1>1. UNCHANGED <<roundNumber, received, queue, view, output>>
  BY DEF reportError
<1>2. finish(p)
  BY DEF reportError
<1>3. /\ timer' \in [Honest -> BOOLEAN] /\ done' \in [Honest -> BOOLEAN]
      /\ ending' \in [Honest -> BOOLEAN]
      /\ done'[p] \/ ending'[p]
      /\ \A r \in Honest \ {p} :
            timer'[r] = timer[r] /\ done'[r] = done[r] /\ ending'[r] = ending[r]
  BY <1>2, FinishEffect
<1> DEFINE e == [culprit |-> culprit, round |-> roundNumber[p]]
<1>4. /\ e \in Errors /\ e # Nobody /\ e.culprit = culprit
      /\ err \in [Honest -> Errors \cup {Nobody}]
      /\ err' = [err EXCEPT ![p] = e]
  BY Distinct DEF IInv, TypeOK, Errors, reportError
<1> HIDE DEF e
<1>5. Protocol'
  BY <1>1, ProtocolFrame DEF IInv, Protocol
<1>6. TypeOK'
  <2>1. err' \in [Honest -> Errors \cup {Nobody}]
    BY <1>4
  <2> QED
    BY <1>1, <1>3, <2>1 DEF IInv, TypeOK, Others, Signers
<1>7. Absent'
  BY <1>1, <1>3 DEF IInv, Absent, Signers
<1>8. OutputOrError'
  <2> SUFFICES ASSUME NEW r \in Honest
               PROVE  IF done'[r] \/ ending'[r]
                      THEN (output'[r] = Nobody) # (err'[r] = Nobody)
                      ELSE output'[r] = Nobody /\ err'[r] = Nobody
    BY DEF OutputOrError
  <2>1. CASE r = p
    BY <1>1, <1>3, <1>4, <2>1 DEF IInv, OutputOrError
  <2>2. CASE r # p
    <3>1. done'[r] = done[r] /\ ending'[r] = ending[r] /\ err'[r] = err[r]
          /\ output'[r] = output[r]
      BY <1>1, <1>3, <1>4, <2>2
    <3> QED
      BY <3>1 DEF IInv, OutputOrError
  <2> QED
    BY <2>1, <2>2
<1>9. BlameSound'
  BY <1>4 DEF IInv, BlameSound, Equivocated
<1>10. Waited'
  <2> SUFFICES ASSUME NEW r \in Waiters
               PROVE  /\ wait'[r] \in {"checked", "returned"} => done'[r]
                      /\ wait'[r] = "returned" => seen'[r] = err'[r]
    BY DEF Waited
  <2>1. r \in Honest
    BY SignAssumption DEF Honest
  <2>2. CASE r = p
    BY <2>2 DEF IInv, Waited
  <2>3. CASE r # p
    BY <1>3, <1>4, <2>1, <2>3 DEF IInv, Waited
  <2> QED
    BY <2>2, <2>3
<1> QED
  BY <1>5, <1>6, <1>7, <1>8, <1>9, <1>10 DEF IInv, Protocol

\* The timer callback gets the mutex, perhaps after the party has finished.
LEMMA CallbackIInv == ASSUME NEW p \in Honest PROVE IInv /\ Callback(p) => IInv'
<1> SUFFICES ASSUME IInv, Callback(p) PROVE IInv'
  OBVIOUS
<1>1. /\ callback \in [Honest -> BOOLEAN] /\ pc \in [Honest -> {"Absent", "Receive", "ProcessAll"}]
      /\ callback[p] /\ ~ending[p]
      /\ callback' = [callback EXCEPT ![p] = FALSE]
      /\ UNCHANGED <<pc, wait, seen, channel, dups, sent, env>>
  BY DEF IInv, TypeOK, Callback
<1>2. /\ callback' \in [Honest -> BOOLEAN]
      /\ \A r \in Honest \ {p} : callback'[r] = callback[r]
  BY <1>1
<1>3. p \in Signers
  BY <1>1 DEF IInv, Absent
<1>4. CASE done[p] /\ UNCHANGED <<state, timer, ending>>
  <2>1. UNCHANGED <<roundNumber, received, queue, done, err, view, output, timer, ending,
                    pc, wait, seen, channel, dups, sent, env>>
    BY <1>1, <1>4 DEF state
  <2>2. Protocol'
    BY <2>1, ProtocolFrame DEF IInv, Protocol
  <2>3. TypeOK'
    BY <1>2, <2>1 DEF IInv, TypeOK, Others, Signers
  <2>4. Absent' /\ OutputOrError' /\ BlameSound' /\ Waited'
    BY <1>1, <2>1 DEF IInv, Absent, OutputOrError, BlameSound, Equivocated, Waited, Signers
  <2> QED
    BY <2>2, <2>3, <2>4 DEF IInv, Protocol
<1>5. CASE ~done[p] /\ reportError(p, Nobody)
  <2>1. /\ pc' \in [Honest -> {"Absent", "Receive", "ProcessAll"}]
        /\ \A r \in Honest \ {p} : pc'[r] = pc[r] /\ callback'[r] = callback[r]
        /\ Nobody \in Parties \cup {Nobody} /\ Nobody \in Faulty \cup {Nobody}
    BY <1>1, <1>2
  <2>2. ~done[p] /\ ~ending[p] /\ reportError(p, Nobody) /\ p \in Signers
    BY <1>1, <1>3, <1>5
  <2>3. UNCHANGED <<wait, seen, channel, dups, sent, env>>
    BY <1>1
  <2> QED
    BY <1>2, <2>1, <2>2, <2>3, ReportErrorIInv, Zenon
<1> QED
  BY <1>4, <1>5 DEF Callback

\* Signers have a share of the key.
LEMMA SignersAreParties == TypeOK => Signers \subseteq Parties
BY SignAssumption DEF TypeOK, Signers, Env

\* A message that q sends appears in what q has sent and on the channels of
\* the others.
LEMMA SendEffect ==
    ASSUME IInv, NEW q \in Signers, NEW m,
           \A p \in Honest : m[p] \in Messages /\ m[p].from = q,
           Send(q, m), env' = env
    PROVE  /\ sent' \in [Parties -> SUBSET Messages]
           /\ \A r \in Parties : sent[r] \subseteq sent'[r]
           /\ \A r \in Parties \ {q} : sent'[r] = sent[r]
           /\ sent'[q] = sent[q] \cup {m[p] : p \in Honest}
           /\ IsMap(channel)'
           /\ \A p \in Honest : channel'[p] \in Seq(Messages)
           /\ Authored' /\ Carried'
<1>1. q \in Parties
  BY SignersAreParties DEF IInv
<1>2. sent \in [Parties -> SUBSET Messages] /\ \A p \in Honest : channel[p] \in Seq(Messages)
  BY DEF IInv, TypeOK
<1>3. sent' = [sent EXCEPT ![q] = sent[q] \cup {m[p] : p \in Honest}]
  BY DEF Send
<1>4. {m[p] : p \in Honest} \subseteq Messages
  OBVIOUS
<1>5. /\ sent' \in [Parties -> SUBSET Messages]
      /\ \A r \in Parties : sent[r] \subseteq sent'[r]
      /\ \A r \in Parties \ {q} : sent'[r] = sent[r]
      /\ sent'[q] = sent[q] \cup {m[p] : p \in Honest}
  BY <1>1, <1>2, <1>3, <1>4
<1>6. Authored'
  <2> SUFFICES ASSUME NEW r \in Parties, NEW x \in sent'[r] PROVE x.from = r
    BY DEF Authored
  <2>1. CASE r = q /\ x \notin sent[q]
    BY <1>5, <2>1
  <2>2. CASE x \in sent[r]
    BY <2>2 DEF IInv, Authored
  <2> QED
    BY <1>5, <2>1, <2>2
<1>7. channel' = [p \in Honest |->
                     IF p \in Others(q) THEN Append(channel[p], m[p]) ELSE channel[p]]
  BY DEF Send
<1>8. IsMap(channel)'
  BY <1>7 DEF IsMap
<1>9. ASSUME NEW p \in Honest
      PROVE  /\ channel'[p] \in Seq(Messages)
             /\ \A i \in DOMAIN channel'[p] :
                    /\ channel'[p][i].from \in Others(p)
                    /\ channel'[p][i] \in sent'[channel'[p][i].from]
  <2>1. \A i \in DOMAIN channel[p] :
            /\ channel[p][i].from \in Others(p)
            /\ channel[p][i] \in sent'[channel[p][i].from]
    BY <1>5, SignersAreParties DEF IInv, Carried, Others
  <2>2. CASE p \in Others(q)
    <3>1. channel'[p] = Append(channel[p], m[p])
      BY <1>7, <2>2
    <3>2. /\ channel'[p] \in Seq(Messages)
          /\ Len(channel'[p]) = Len(channel[p]) + 1
          /\ \A i \in 1 .. Len(channel[p]) : channel'[p][i] = channel[p][i]
          /\ channel'[p][Len(channel[p]) + 1] = m[p]
      BY <1>2, <3>1, AppendProperties
    <3>3. m[p].from \in Others(p) /\ m[p] \in sent'[m[p].from]
      BY <1>5, <2>2 DEF Others
    <3>4. DOMAIN channel'[p] = 1 .. Len(channel[p]) + 1 /\ DOMAIN channel[p] = 1 .. Len(channel[p])
          /\ Len(channel[p]) \in Nat
      BY <1>2, <3>2, LenProperties
    <3>5. ASSUME NEW i \in DOMAIN channel'[p]
          PROVE  /\ channel'[p][i].from \in Others(p)
                 /\ channel'[p][i] \in sent'[channel'[p][i].from]
      <4>1. CASE i = Len(channel[p]) + 1
        BY <3>2, <3>3, <4>1
      <4>2. CASE i \in DOMAIN channel[p]
        <5>1. channel'[p][i] = channel[p][i]
          BY <3>2, <3>4, <4>2
        <5> QED
          BY <2>1, <4>2, <5>1
      <4> QED
        BY <3>4, <4>1, <4>2
    <3> QED
      BY <3>2, <3>5
  <2>3. CASE p \notin Others(q)
    BY <1>2, <1>7, <2>1, <2>3
  <2> QED
    BY <2>2, <2>3
<1>10. Carried'
  <2>1. \A p : Others(p)' = Others(p)
    BY DEF Others, Signers
  <2> QED
    BY <1>9, <2>1 DEF Carried
<1> QED
  BY <1>5, <1>6, <1>8, <1>9, <1>10

\* What has been sent remains sent.
LEMMA SentGrows ==
    ASSUME IInv, \A r \in Parties : sent[r] \subseteq sent'[r], env' = env
    PROVE  /\ UNCHANGED <<roundNumber, received>> => Held'
           /\ UNCHANGED queue => Queued'
           /\ UNCHANGED <<roundNumber, view>> => ViewBacked'
           /\ UNCHANGED <<roundNumber, view, output>> => OutputBacked'
           /\ UNCHANGED err => BlameSound'
           /\ Equivocated => Equivocated'
<1>1. Signers \subseteq Parties /\ Signers' = Signers
  BY SignersAreParties DEF IInv, Signers
<1>2. \A p : Others(p)' = Others(p) /\ Others(p) \subseteq Parties
  BY <1>1 DEF Others, Signers
<1>3. UNCHANGED <<roundNumber, received>> => Held'
  BY <1>2 DEF IInv, Held
<1>4. UNCHANGED queue => Queued'
  BY <1>2 DEF IInv, Queued
<1>5. UNCHANGED <<roundNumber, view>> => ViewBacked'
  BY <1>1, <1>2 DEF IInv, ViewBacked
<1>6. UNCHANGED <<roundNumber, view, output>> => OutputBacked'
  BY <1>1, <1>2 DEF IInv, OutputBacked
<1>7. Equivocated => Equivocated'
  BY SignAssumption DEF Equivocated
<1>8. UNCHANGED err => BlameSound'
  BY <1>7 DEF IInv, BlameSound
<1> QED
  BY <1>3, <1>4, <1>5, <1>6, <1>7, <1>8

\* A faulty signer sends what it likes, in its own name.
LEMMA MisbehaveIInv == ASSUME NEW q \in Faulty \cap Signers PROVE IInv /\ Misbehave(q) => IInv'
<1> SUFFICES ASSUME IInv, Misbehave(q) PROVE IInv'
  OBVIOUS
<1>1. UNCHANGED <<roundNumber, received, queue, done, err, view, output, timer, callback,
                  pc, ending, wait, seen, dups, env>>
  BY DEF Misbehave, state, threads
<1>2. q \in Parties /\ q \in Signers /\ q \notin Honest /\ Honest \subseteq Parties
  BY SignAssumption DEF Honest
<1>3. PICK m : Send(q, m) /\ \A p \in Honest : m[p] \in Messages /\ m[p].from = q
  <2>1. ASSUME NEW S, NEW c \in Told(S) PROVE \A p \in Honest : c[p] \in S
    BY DEF Told
  <2>2. CASE \E c \in Told(Commitments) : Send(q, [p \in Honest |-> Sign1(q, c[p])])
    <3>1. PICK c \in Told(Commitments) : Send(q, [p \in Honest |-> Sign1(q, c[p])])
      BY <2>2
    <3>2. \A p \in Honest : Sign1(q, c[p]) \in Messages /\ Sign1(q, c[p]).from = q
      BY <1>2, <2>1, <3>1, MessageShape DEF Sign1
    <3> WITNESS [p \in Honest |-> Sign1(q, c[p])]
    <3> QED
      BY <3>1, <3>2
  <2>3. CASE \E z \in Told({view[p] : p \in Honest} \cup {Garbage}) :
                Send(q, [p \in Honest |-> Sign2(q, z[p])])
    <3>1. PICK z \in Told({view[p] : p \in Honest} \cup {Garbage}) :
                Send(q, [p \in Honest |-> Sign2(q, z[p])])
      BY <2>3
    <3>2. {view[p] : p \in Honest} \cup {Garbage} \subseteq Views
      BY Distinct DEF IInv, TypeOK
    <3>3. \A p \in Honest : z[p] \in Views
      BY <2>1, <3>1, <3>2
    <3>4. \A p \in Honest : Sign2(q, z[p]) \in Messages /\ Sign2(q, z[p]).from = q
      BY <1>2, <3>3, MessageShape DEF Sign2
    <3> WITNESS [p \in Honest |-> Sign2(q, z[p])]
    <3> QED
      BY <3>1, <3>4
  <2> QED
    BY <2>2, <2>3 DEF Misbehave
<1>4. /\ sent' \in [Parties -> SUBSET Messages]
      /\ \A r \in Parties : sent[r] \subseteq sent'[r]
      /\ \A r \in Parties \ {q} : sent'[r] = sent[r]
      /\ IsMap(channel)'
      /\ \A p \in Honest : channel'[p] \in Seq(Messages)
      /\ Authored' /\ Carried'
  BY <1>1, <1>2, <1>3, SendEffect
<1>5. Held' /\ Queued' /\ ViewBacked' /\ OutputBacked' /\ BlameSound'
  BY <1>1, <1>4, SentGrows
<1>6. HonestSent'
  BY <1>1, <1>2, <1>4 DEF IInv, HonestSent
<1>7. Maps'
  BY <1>1, <1>4 DEF IInv, Maps, IsMap
<1>8. TypeOK'
  BY <1>1, <1>4 DEF IInv, TypeOK, Others, Signers
<1>9. Absent' /\ OutputOrError' /\ Waited'
  BY <1>1 DEF IInv, Absent, OutputOrError, Waited, Signers
<1> QED
  BY <1>4, <1>5, <1>6, <1>7, <1>8, <1>9 DEF IInv

\* A message that HandleMessage stores or queues is one that its sender has
\* sent, and is not of an earlier round.
LEMMA HandleMessageEffect ==
    ASSUME IInv, NEW p \in Honest, NEW i \in DOMAIN channel[p],
           HandleMessage(p, channel[p][i]), UNCHANGED <<sent, env>>, p \in Signers
    PROVE  /\ IsMap(received)' /\ IsMap(queue)'
           /\ \A r \in Honest :
                 /\ received'[r] \in [Others(r) -> Messages \cup {NilMsg, Nobody}]
                 /\ queue'[r] \in [1 .. 2 -> [Others(r) -> Messages \cup {Nobody}]]
           /\ timer' \in [Honest -> BOOLEAN] /\ \A r \in Honest \ {p} : timer'[r] = timer[r]
           /\ UNCHANGED <<roundNumber, done, err, view, output>>
           /\ Held' /\ Queued'
<1> DEFINE m == channel[p][i]
<1>1. m \in Messages /\ m.from \in Others(p) /\ m \in sent[m.from] /\ m.type \in 1 .. 2
  <2>1. m \in Messages
    BY ElementOfSeq, LenProperties DEF IInv, TypeOK
  <2>2. m.from \in Others(p) /\ m \in sent[m.from]
    BY DEF IInv, Carried
  <2> QED
    BY <2>1, <2>2 DEF Messages
<1>2. HandleMessage(p, m)
  OBVIOUS
<1> HIDE DEF m
<1>3. /\ IsMap(received) /\ IsMap(queue) /\ timer \in [Honest -> BOOLEAN]
      /\ \A r \in Honest :
            /\ received[r] \in [Others(r) -> Messages \cup {NilMsg, Nobody}]
            /\ queue[r] \in [1 .. 2 -> [Others(r) -> Messages \cup {Nobody}]]
  BY DEF IInv, TypeOK, Maps
<1>4. Held /\ Queued
  BY DEF IInv
<1>5. \A r : Others(r)' = Others(r)
  BY DEF Others, Signers
<1>6. CASE ~Accepts(p, m) /\ UNCHANGED <<state, timer>>
  BY <1>3, <1>4, <1>5, <1>6 DEF state, IsMap, Held, Queued
<1>7. CASE /\ Accepts(p, m) /\ ackMessage(p)
           /\ UNCHANGED <<roundNumber, done, err, view, output>>
           /\ \/ /\ m.type = roundNumber[p]
                 /\ received' = [received EXCEPT ![p][m.from] = m]
                 /\ UNCHANGED queue
              \/ /\ m.type # roundNumber[p]
                 /\ queue' = [queue EXCEPT ![p][m.type][m.from] = m]
                 /\ UNCHANGED received
  <2>1. timer' \in [Honest -> BOOLEAN] /\ \A r \in Honest \ {p} : timer'[r] = timer[r]
    <3>1. env.timeout \in BOOLEAN
      BY SignAssumption DEF IInv, TypeOK, Env
    <3> QED
      BY <1>3, <1>7, <3>1 DEF ackMessage
  <2>2. CASE /\ m.type = roundNumber[p]
             /\ received' = [received EXCEPT ![p][m.from] = m]
             /\ UNCHANGED queue
    <3>1. received' = [r \in Honest |-> IF r = p THEN [received[p] EXCEPT ![m.from] = m]
                                                ELSE received[r]]
      BY <1>3, <2>2 DEF IsMap
    <3>2. /\ IsMap(received)'
          /\ \A r \in Honest : received'[r] \in [Others(r) -> Messages \cup {NilMsg, Nobody}]
      BY <1>1, <1>3, <3>1 DEF IsMap
    <3>3. Held'
      <4> SUFFICES ASSUME NEW r \in Honest, NEW q \in Others(r)
                   PROVE  IF roundNumber[r] = 0 THEN received'[r][q] = NilMsg
                          ELSE received'[r][q] # Nobody =>
                                  received'[r][q] \in sent[q] /\ received'[r][q].type = roundNumber[r]
        BY <1>5, <1>7 DEF Held
      <4>1. CASE r = p /\ q = m.from
        <5>1. received'[r][q] = m
          BY <1>1, <1>3, <3>1, <4>1
        <5>2. roundNumber[p] # 0
          BY <1>1, <2>2
        <5> QED
          BY <1>1, <2>2, <4>1, <5>1, <5>2
      <4>2. CASE ~(r = p /\ q = m.from)
        <5>1. received'[r][q] = received[r][q]
          BY <1>1, <1>3, <3>1, <4>2
        <5> QED
          BY <1>4, <5>1 DEF Held
      <4> QED
        BY <4>1, <4>2
    <3>4. IsMap(queue)' /\ Queued'
      BY <1>3, <1>4, <1>5, <2>2 DEF IsMap, Queued
    <3> QED
      BY <1>3, <1>7, <2>1, <2>2, <3>2, <3>3, <3>4
  <2>3. CASE /\ m.type # roundNumber[p]
             /\ queue' = [queue EXCEPT ![p][m.type][m.from] = m]
             /\ UNCHANGED received
    <3>1. queue' = [r \in Honest |->
                       IF r = p THEN [queue[p] EXCEPT ![m.type] =
                                         [queue[p][m.type] EXCEPT ![m.from] = m]]
                                ELSE queue[r]]
      BY <1>3, <2>3 DEF IsMap
    <3>2. /\ [queue[p][m.type] EXCEPT ![m.from] = m] \in [Others(p) -> Messages \cup {Nobody}]
          /\ \A q \in Others(p) : [queue[p][m.type] EXCEPT ![m.from] = m][q] =
                                     IF q = m.from THEN m ELSE queue[p][m.type][q]
      BY <1>1, <1>3
    <3>3. \A r \in Honest : queue'[r] \in [1 .. 2 -> [Others(r) -> Messages \cup {Nobody}]]
      BY <1>1, <1>3, <3>1, <3>2
    <3>4. IsMap(queue)'
      BY <3>1 DEF IsMap
    <3>5. Queued'
      <4> SUFFICES ASSUME NEW r \in Honest, NEW t \in 1 .. 2, NEW q \in Others(r)
                   PROVE  queue'[r][t][q] # Nobody =>
                             queue'[r][t][q] \in sent[q] /\ queue'[r][t][q].type = t
        BY <1>5 DEF Queued
      <4>1. CASE r = p /\ t = m.type /\ q = m.from
        BY <1>1, <1>3, <3>1, <3>2, <4>1
      <4>2. CASE ~(r = p /\ t = m.type /\ q = m.from)
        <5>1. queue'[r][t][q] = queue[r][t][q]
          BY <1>1, <1>3, <3>1, <3>2, <4>2
        <5> QED
          BY <1>4, <5>1 DEF Queued
      <4> QED
        BY <4>1, <4>2
    <3>6. IsMap(received)' /\ Held'
      BY <1>3, <1>4, <1>5, <1>7, <2>3 DEF IsMap, Held
    <3> QED
      BY <1>3, <1>7, <2>1, <2>3, <3>3, <3>4, <3>5, <3>6
  <2> QED
    BY <1>7, <2>2, <2>3
<1> QED
  BY <1>2, <1>6, <1>7 DEF HandleMessage

\* HandleMessage stores, queues or refuses a message, perhaps again.
LEMMA ReceiveIInv == ASSUME NEW p \in Honest PROVE IInv /\ Receive(p) => IInv'
<1> SUFFICES ASSUME IInv, Receive(p) PROVE IInv'
  OBVIOUS
<1>1. PICK i \in DOMAIN channel[p] :
          /\ HandleMessage(p, channel[p][i])
          /\ pc' = [pc EXCEPT ![p] =
                       IF GoesOn(p, channel[p][i]) THEN "ProcessAll" ELSE "Receive"]
          /\ \/ channel' = [channel EXCEPT ![p] = RemoveAt(@, i)] /\ UNCHANGED dups
             \/ dups < MaxDup /\ dups' = dups + 1 /\ UNCHANGED channel
  BY DEF Receive, Arrivals
<1>2. UNCHANGED <<callback, ending, wait, seen, sent, env>> /\ pc[p] = "Receive"
  BY DEF Receive
<1>3. p \in Signers
  BY <1>2 DEF IInv, Absent
<1>4. /\ IsMap(received)' /\ IsMap(queue)'
      /\ \A r \in Honest :
            /\ received'[r] \in [Others(r) -> Messages \cup {NilMsg, Nobody}]
            /\ queue'[r] \in [1 .. 2 -> [Others(r) -> Messages \cup {Nobody}]]
      /\ timer' \in [Honest -> BOOLEAN] /\ \A r \in Honest \ {p} : timer'[r] = timer[r]
      /\ UNCHANGED <<roundNumber, done, err, view, output>>
      /\ Held' /\ Queued'
  BY <1>1, <1>2, <1>3, HandleMessageEffect
<1>5. /\ pc' \in [Honest -> {"Absent", "Receive", "ProcessAll"}]
      /\ \A r \in Honest \ {p} : pc'[r] = pc[r]
  BY <1>1 DEF IInv, TypeOK
<1>6. /\ IsMap(channel)' /\ Carried'
      /\ \A r \in Honest : channel'[r] \in Seq(Messages)
  <2>1. channel \in [Honest -> Seq(Messages)]
    BY DEF IInv, TypeOK, Maps, IsMap
  <2>2. CASE channel' = [channel EXCEPT ![p] = RemoveAt(@, i)]
    <3>1. channel' = [r \in Honest |-> IF r = p THEN RemoveAt(channel[p], i) ELSE channel[r]]
      BY <2>1, <2>2
    <3>2. /\ RemoveAt(channel[p], i) \in Seq(Messages)
          /\ \A j \in DOMAIN RemoveAt(channel[p], i) :
                 \E k \in DOMAIN channel[p] : RemoveAt(channel[p], i)[j] = channel[p][k]
      BY <1>1, <2>1, RemoveAtElements
    <3>3. Carried'
      BY <1>2, <3>1, <3>2 DEF IInv, Carried, Others, Signers
    <3> QED
      BY <2>1, <3>1, <3>2, <3>3 DEF IsMap
  <2>3. CASE UNCHANGED channel
    BY <1>2, <2>1, <2>3 DEF IInv, Maps, IsMap, Carried, Others, Signers
  <2> QED
    BY <1>1, <2>2, <2>3
<1>7. dups' \in 0 .. MaxDup
  BY <1>1, SignAssumption DEF IInv, TypeOK
<1>8. TypeOK'
  <2>1. \A r : Others(r)' = Others(r)
    BY <1>2 DEF Others, Signers
  <2> QED
    BY <1>2, <1>4, <1>5, <1>6, <1>7, <2>1 DEF IInv, TypeOK
<1>9. Authored' /\ HonestSent' /\ ViewBacked' /\ OutputBacked'
  BY <1>2, <1>4 DEF IInv, Authored, HonestSent, ViewBacked, OutputBacked, Others, Signers
<1>10. Absent'
  BY <1>2, <1>3, <1>4, <1>5 DEF IInv, Absent, Signers
<1>11. OutputOrError' /\ BlameSound' /\ Waited'
  BY <1>2, <1>4 DEF IInv, OutputOrError, BlameSound, Equivocated, Waited
<1> QED
  BY <1>4, <1>6, <1>8, <1>9, <1>10, <1>11 DEF IInv, Maps

\* The round rejects a message of an honest party only if its sender has
\* another view of the commitments, which takes a party that equivocates.
LEMMA RejectedBlame ==
    ASSUME IInv, NEW p \in Honest, p \in Signers, HaveAll(p), NEW q \in Rejected(p)
    PROVE  q \in Parties /\ (q \in Faulty \/ Equivocated)
<1> DEFINE m == received[p][q]
<1>1. q \in Others(p) /\ ~ProcessMessage(p, m) /\ m # Nobody
  BY DEF Rejected, HaveAll
<1>2. q \in Parties /\ q \in Signers /\ q # p
  BY <1>1, SignersAreParties DEF IInv, Others
<1>3. roundNumber[p] \in {1, 2} /\ m \in sent[q] /\ m.type = roundNumber[p]
  <2>1. roundNumber[p] \in {1, 2}
    BY <1>1 DEF ProcessMessage
  <2> QED
    BY <1>1, <2>1 DEF IInv, Held
<1> SUFFICES ASSUME q \notin Faulty PROVE Equivocated
  BY <1>2
<1>4. q \in Honest
  BY <1>2 DEF Honest
<1>5. m = Sign1(q, "D") \/ (roundNumber[q] = 2 /\ m = Sign2(q, view[q]))
  BY <1>3, <1>4 DEF IInv, HonestSent
<1> HIDE DEF m
<1>6. roundNumber[p] = 2 /\ roundNumber[q] = 2 /\ view[q] # view[p]
  BY <1>1, <1>3, <1>5 DEF ProcessMessage, Sign1, Sign2
<1>7. PICK r \in Parties : view[p][r] # view[q][r]
  BY <1>4, <1>6 DEF IInv, TypeOK, Views
<1>8. r \in Signers
  BY <1>4, <1>6, <1>7 DEF IInv, ViewBacked
<1>9. \A c \in Honest : \A d : Sign1(c, d) \in sent[c] => d = "D"
  <2> SUFFICES ASSUME NEW c \in Honest, NEW d, Sign1(c, d) \in sent[c] PROVE d = "D"
    OBVIOUS
  <2>1. Sign1(c, d) = Sign1(c, "D") \/ Sign1(c, d) = Sign2(c, view[c])
    BY DEF IInv, HonestSent
  <2>2. Sign1(c, d).type = 1 /\ Sign2(c, view[c]).type = 2 /\ Sign1(c, d).commitment = d
        /\ Sign1(c, "D").commitment = "D"
    BY DEF Sign1, Sign2
  <2> QED
    BY <2>1, <2>2
<1>10. r # p
  <2> SUFFICES ASSUME r = p PROVE FALSE
    OBVIOUS
  <2>1. p \in Others(q)
    BY <1>2 DEF Others
  <2>2. view[q][p] = "D" /\ view[p][p] = "D"
    BY <1>4, <1>6, <1>9, <2>1 DEF IInv, ViewBacked
  <2> QED
    BY <1>7, <2>2
<1>11. r # q
  <2> SUFFICES ASSUME r = q PROVE FALSE
    OBVIOUS
  <2>1. view[p][q] = "D" /\ view[q][q] = "D"
    BY <1>1, <1>4, <1>6, <1>9 DEF IInv, ViewBacked
  <2> QED
    BY <1>7, <2>1
<1>12. Sign1(r, view[p][r]) \in sent[r] /\ Sign1(r, view[q][r]) \in sent[r]
  BY <1>4, <1>6, <1>8, <1>10, <1>11 DEF IInv, ViewBacked, Others
<1>13. r \in Faulty
  BY <1>7, <1>9, <1>12 DEF Honest
<1>14. /\ Sign1(r, view[p][r]).type = 1 /\ Sign1(r, view[q][r]).type = 1
       /\ Sign1(r, view[p][r]) # Sign1(r, view[q][r])
  BY <1>7 DEF Sign1
<1> QED
  BY <1>12, <1>13, <1>14 DEF Equivocated

\* The messages that leave the queue are those of the round that begins.
LEMMA UnqueueEffect ==
    ASSUME IInv, NEW p \in Honest, NEW t \in 1 .. 2, Unqueue(p, t),
           roundNumber' = [roundNumber EXCEPT ![p] = t],
           \A r \in Parties : sent[r] \subseteq sent'[r], env' = env
    PROVE  /\ IsMap(received)' /\ IsMap(queue)'
           /\ \A r \in Honest :
                 /\ received'[r] \in [Others(r) -> Messages \cup {NilMsg, Nobody}]
                 /\ queue'[r] \in [1 .. 2 -> [Others(r) -> Messages \cup {Nobody}]]
           /\ Held' /\ Queued'
<1>1. /\ IsMap(received) /\ IsMap(queue) /\ roundNumber \in [Honest -> 0 .. 2]
      /\ \A r \in Honest :
            /\ received[r] \in [Others(r) -> Messages \cup {NilMsg, Nobody}]
            /\ queue[r] \in [1 .. 2 -> [Others(r) -> Messages \cup {Nobody}]]
  BY DEF IInv, TypeOK, Maps
<1>2. \A r : Others(r)' = Others(r) /\ Others(r) \subseteq Parties
  BY SignersAreParties DEF IInv, Others, Signers
<1>3. received' = [r \in Honest |-> IF r = p THEN queue[p][t] ELSE received[r]]
  BY <1>1 DEF Unqueue, IsMap
<1>4. queue' = [r \in Honest |-> IF r = p THEN [queue[p] EXCEPT ![t] = NoMessages(p)]
                                         ELSE queue[r]]
  BY <1>1 DEF Unqueue, IsMap
<1>5. NoMessages(p) \in [Others(p) -> Messages \cup {Nobody}]
      /\ \A q \in Others(p) : NoMessages(p)[q] = Nobody
  BY DEF NoMessages
<1>6. \A r \in Honest : received'[r] \in [Others(r) -> Messages \cup {NilMsg, Nobody}]
  <2> TAKE r \in Honest
  <2>1. queue[p][t] \in [Others(p) -> Messages \cup {NilMsg, Nobody}]
    BY <1>1
  <2> QED
    BY <1>1, <1>3, <2>1
<1>7. \A r \in Honest : queue'[r] \in [1 .. 2 -> [Others(r) -> Messages \cup {Nobody}]]
  BY <1>1, <1>4, <1>5
<1>8. Held'
  <2> SUFFICES ASSUME NEW r \in Honest, NEW q \in Others(r)
               PROVE  IF roundNumber'[r] = 0 THEN received'[r][q] = NilMsg
                      ELSE received'[r][q] # Nobody =>
                              /\ received'[r][q] \in sent'[q]
                              /\ received'[r][q].type = roundNumber'[r]
    BY <1>2 DEF Held
  <2>1. q \in Parties
    BY <1>2
  <2>2. CASE r = p
    <3>1. received'[r][q] = queue[p][t][q] /\ roundNumber'[r] = t
      BY <1>1, <1>3, <2>2
    <3>2. queue[p][t][q] # Nobody => queue[p][t][q] \in sent[q] /\ queue[p][t][q].type = t
      BY <2>2 DEF IInv, Queued
    <3> QED
      BY <2>1, <3>1, <3>2
  <2>3. CASE r # p
    <3>1. received'[r][q] = received[r][q] /\ roundNumber'[r] = roundNumber[r]
      BY <1>1, <1>3, <2>3
    <3> QED
      BY <2>1, <3>1 DEF IInv, Held
  <2> QED
    BY <2>2, <2>3
<1>9. Queued'
  <2> SUFFICES ASSUME NEW r \in Honest, NEW u \in 1 .. 2, NEW q \in Others(r)
               PROVE  queue'[r][u][q] # Nobody =>
                         queue'[r][u][q] \in sent'[q] /\ queue'[r][u][q].type = u
    BY <1>2 DEF Queued
  <2>1. queue'[r][u][q] = Nobody \/ queue'[r][u][q] = queue[r][u][q]
    <3>1. CASE r = p /\ u = t
      BY <1>1, <1>4, <1>5, <3>1
    <3>2. CASE ~(r = p /\ u = t)
      BY <1>1, <1>4, <3>2
    <3> QED
      BY <3>1, <3>2
  <2> QED
    BY <1>2, <2>1 DEF IInv, Queued
<1> QED
  BY <1>3, <1>4, <1>6, <1>7, <1>8, <1>9 DEF IsMap

\* Broadcasting adds one message.
LEMMA BroadcastEffect ==
    ASSUME IInv, NEW p \in Honest, p \in Signers, NEW x \in Messages, x.from = p,
           Broadcast(p, x), env' = env
    PROVE  /\ sent' \in [Parties -> SUBSET Messages]
           /\ \A r \in Parties : sent[r] \subseteq sent'[r]
           /\ \A r \in Parties \ {p} : sent'[r] = sent[r]
           /\ sent'[p] = sent[p] \cup {x}
           /\ IsMap(channel)'
           /\ \A r \in Honest : channel'[r] \in Seq(Messages)
           /\ Authored' /\ Carried'
<1> DEFINE m == [r \in Honest |-> x]
<1>1. Send(p, m)
  BY DEF Broadcast
<1>2. {m[r] : r \in Honest} = {x} /\ \A r \in Honest : m[r] \in Messages /\ m[r].from = p
  OBVIOUS
<1> HIDE DEF m
<1>3. /\ sent' \in [Parties -> SUBSET Messages]
      /\ \A r \in Parties : sent[r] \subseteq sent'[r]
      /\ \A r \in Parties \ {p} : sent'[r] = sent[r]
      /\ sent'[p] = sent[p] \cup {m[r] : r \in Honest}
      /\ IsMap(channel)'
      /\ \A r \in Honest : channel'[r] \in Seq(Messages)
      /\ Authored' /\ Carried'
  BY <1>1, <1>2, SendEffect
<1> QED
  BY <1>2, <1>3

\* Round 0 ends: the commitment is sent.
LEMMA Advance0IInv ==
    ASSUME IInv, NEW p \in Honest, p \in Signers, ~done[p], ~ending[p],
           roundNumber[p] = 0, Broadcast(p, Sign1(p, "D")), Unqueue(p, 1),
           roundNumber' = [roundNumber EXCEPT ![p] = 1],
           pc' = [pc EXCEPT ![p] = "Receive"],
           UNCHANGED <<done, err, view, output, timer, ending, callback, wait, seen, dups, env>>
    PROVE  IInv'
<1>1. p \in Parties /\ Honest \subseteq Parties /\ roundNumber \in [Honest -> 0 .. 2]
  BY DEF Honest, IInv, TypeOK
<1>2. Sign1(p, "D") \in Messages /\ Sign1(p, "D").from = p
  BY <1>1, Distinct, MessageShape DEF Sign1
<1>3. /\ sent' \in [Parties -> SUBSET Messages]
      /\ \A r \in Parties : sent[r] \subseteq sent'[r]
      /\ \A r \in Parties \ {p} : sent'[r] = sent[r]
      /\ sent'[p] = sent[p] \cup {Sign1(p, "D")}
      /\ IsMap(channel)' /\ \A r \in Honest : channel'[r] \in Seq(Messages)
      /\ Authored' /\ Carried'
  BY <1>2, BroadcastEffect
<1>4. /\ IsMap(received)' /\ IsMap(queue)'
      /\ \A r \in Honest :
            /\ received'[r] \in [Others(r) -> Messages \cup {NilMsg, Nobody}]
            /\ queue'[r] \in [1 .. 2 -> [Others(r) -> Messages \cup {Nobody}]]
      /\ Held' /\ Queued'
  <2>1. 1 \in 1 .. 2
    OBVIOUS
  <2>2. (\A r \in Parties : sent[r] \subseteq sent'[r]) /\ env' = env
    BY <1>3
  <2> QED
    BY <2>1, <2>2, UnqueueEffect, Zenon
<1>5. /\ roundNumber' \in [Honest -> 0 .. 2] /\ roundNumber'[p] = 1
      /\ \A r \in Honest \ {p} : roundNumber'[r] = roundNumber[r]
  BY <1>1
<1>6. \A r : Others(r)' = Others(r) /\ Others(r) \subseteq Parties
  BY SignersAreParties DEF IInv, Others, Signers
<1>7. TypeOK'
  <2>1. pc' \in [Honest -> {"Absent", "Receive", "ProcessAll"}]
    BY DEF IInv, TypeOK
  <2> QED
    BY <1>3, <1>4, <1>5, <1>6, <2>1 DEF IInv, TypeOK
<1>8. HonestSent'
  BY <1>1, <1>3, <1>5 DEF IInv, HonestSent
<1>9. ViewBacked'
  <2> SUFFICES ASSUME NEW r \in Honest, roundNumber'[r] = 2
               PROVE  /\ view[r][r] = "D"
                      /\ \A q \in Others(r) : Sign1(q, view[r][q]) \in sent'[q]
                      /\ \A q \in Parties \ Signers : view[r][q] = Nobody
    <3>1. Signers' = Signers
      BY DEF Signers
    <3> QED
      BY <1>6, <3>1 DEF ViewBacked
  <2>1. r # p /\ roundNumber[r] = 2
    BY <1>5
  <2> QED
    BY <1>3, <1>6, <2>1 DEF IInv, ViewBacked
<1>10. OutputBacked'
  <2> SUFFICES ASSUME NEW r \in Honest, output[r] # Nobody
               PROVE  /\ r \in Signers /\ roundNumber'[r] = 2 /\ output[r] = view[r]
                      /\ \A q \in Signers : Sign2(q, output[r]) \in sent'[q]
    BY DEF OutputBacked, Signers
  <2>1. r # p /\ roundNumber'[r] = roundNumber[r]
    BY <1>5 DEF IInv, OutputOrError
  <2> QED
    BY <1>3, <2>1, SignersAreParties DEF IInv, OutputBacked
<1>11. BlameSound'
  BY <1>3, SentGrows
<1>12. Absent'
  BY DEF IInv, TypeOK, Absent, Signers
<1>13. OutputOrError' /\ Waited'
  BY DEF IInv, OutputOrError, Waited
<1> QED
  BY <1>3, <1>4, <1>7, <1>8, <1>9, <1>10, <1>11, <1>12, <1>13 DEF IInv, Maps

\* In round 1 every other signer's commitment is there.
LEMMA NewViewBacked ==
    ASSUME IInv, NEW p \in Honest, p \in Signers, HaveAll(p), roundNumber[p] = 1
    PROVE  /\ NewView(p) \in Views
           /\ NewView(p)[p] = "D"
           /\ \A q \in Others(p) : Sign1(q, NewView(p)[q]) \in sent[q]
           /\ \A q \in Parties \ Signers : NewView(p)[q] = Nobody
<1>1. p \in Parties /\ Signers \subseteq Parties
  BY SignersAreParties DEF Honest, IInv
<1>2. ASSUME NEW q \in Others(p)
      PROVE  /\ received[p][q].commitment \in Commitments
             /\ Sign1(q, received[p][q].commitment) \in sent[q]
  <2>1. received[p][q] \in sent[q] /\ received[p][q].type = 1 /\ q \in Parties
    BY <1>1 DEF IInv, Held, HaveAll, Others
  <2>2. received[p][q] \in Messages /\ received[p][q].from = q
    BY <2>1 DEF IInv, TypeOK, Authored
  <2> QED
    BY <2>1, <2>2, MessageShape
<1>3. \A q \in Parties : NewView(p)[q] = IF q = p THEN "D"
                            ELSE IF q \in Signers THEN received[p][q].commitment ELSE Nobody
  BY DEF NewView
<1>4. \A q \in Parties : NewView(p)[q] \in Commitments \cup {Nobody}
  BY <1>2, <1>3, Distinct DEF Others
<1>5. NewView(p) \in Views
  BY <1>4 DEF Views, NewView
<1> QED
  BY <1>1, <1>2, <1>3, <1>5 DEF Others

\* Round 1 ends: the share is sent.
LEMMA Advance1IInv ==
    ASSUME IInv, NEW p \in Honest, p \in Signers, ~done[p], ~ending[p], HaveAll(p),
           roundNumber[p] = 1, view' = [view EXCEPT ![p] = NewView(p)],
           Broadcast(p, Sign2(p, NewView(p))), Unqueue(p, 2),
           roundNumber' = [roundNumber EXCEPT ![p] = 2],
           pc' = [pc EXCEPT ![p] = "Receive"],
           UNCHANGED <<done, err, output, timer, ending, callback, wait, seen, dups, env>>
    PROVE  IInv'
<1> DEFINE w == NewView(p)
<1>1. p \in Parties /\ Honest \subseteq Parties /\ roundNumber \in [Honest -> 0 .. 2]
      /\ view \in [Honest -> Views]
  BY DEF Honest, IInv, TypeOK
<1>2. /\ w \in Views /\ w[p] = "D"
      /\ \A q \in Others(p) : Sign1(q, w[q]) \in sent[q]
      /\ \A q \in Parties \ Signers : w[q] = Nobody
  BY NewViewBacked
<1>3. Broadcast(p, Sign2(p, w)) /\ view' = [view EXCEPT ![p] = w]
  OBVIOUS
<1> HIDE DEF w
<1>4. Sign2(p, w) \in Messages /\ Sign2(p, w).from = p
  BY <1>1, <1>2, MessageShape DEF Sign2
<1>5. /\ sent' \in [Parties -> SUBSET Messages]
      /\ \A r \in Parties : sent[r] \subseteq sent'[r]
      /\ \A r \in Parties \ {p} : sent'[r] = sent[r]
      /\ sent'[p] = sent[p] \cup {Sign2(p, w)}
      /\ IsMap(channel)' /\ \A r \in Honest : channel'[r] \in Seq(Messages)
      /\ Authored' /\ Carried'
  BY <1>3, <1>4, BroadcastEffect
<1>6. /\ IsMap(received)' /\ IsMap(queue)'
      /\ \A r \in Honest :
            /\ received'[r] \in [Others(r) -> Messages \cup {NilMsg, Nobody}]
            /\ queue'[r] \in [1 .. 2 -> [Others(r) -> Messages \cup {Nobody}]]
      /\ Held' /\ Queued'
  <2>1. 2 \in 1 .. 2
    OBVIOUS
  <2>2. (\A r \in Parties : sent[r] \subseteq sent'[r]) /\ env' = env
    BY <1>5
  <2> QED
    BY <2>1, <2>2, UnqueueEffect, Zenon
<1>7. /\ roundNumber' \in [Honest -> 0 .. 2] /\ roundNumber'[p] = 2
      /\ view' \in [Honest -> Views] /\ view'[p] = w
      /\ \A r \in Honest \ {p} : roundNumber'[r] = roundNumber[r] /\ view'[r] = view[r]
  BY <1>1, <1>2, <1>3
<1>8. \A r : Others(r)' = Others(r) /\ Others(r) \subseteq Parties
  BY SignersAreParties DEF IInv, Others, Signers
<1>9. Signers' = Signers
  BY DEF Signers
<1>10. TypeOK'
  <2>1. pc' \in [Honest -> {"Absent", "Receive", "ProcessAll"}]
    BY DEF IInv, TypeOK
  <2> QED
    BY <1>5, <1>6, <1>7, <1>8, <2>1 DEF IInv, TypeOK
<1>11. HonestSent'
  <2> SUFFICES ASSUME NEW r \in Honest
               PROVE  /\ \A m \in sent'[r] :
                            \/ m = Sign1(r, "D")
                            \/ roundNumber'[r] = 2 /\ m = Sign2(r, view'[r])
                      /\ roundNumber'[r] = 2 => Sign2(r, view'[r]) \in sent'[r]
    BY DEF HonestSent
  <2>1. /\ \A m \in sent[r] : \/ m = Sign1(r, "D")
                              \/ roundNumber[r] = 2 /\ m = Sign2(r, view[r])
        /\ roundNumber[r] = 2 => Sign2(r, view[r]) \in sent[r]
    BY DEF IInv, HonestSent
  <2>2. CASE r = p
    <3>1. \A m \in sent[p] : m = Sign1(p, "D")
      BY <2>1, <2>2
    <3> QED
      BY ONLY <1>5, <1>7, <2>2, <3>1
  <2>3. CASE r # p
    <3>1. sent'[r] = sent[r] /\ roundNumber'[r] = roundNumber[r] /\ view'[r] = view[r]
      BY <1>1, <1>5, <1>7, <2>3
    <3> QED
      BY ONLY <2>1, <3>1
  <2> QED
    BY <2>2, <2>3
<1>12. ViewBacked'
  <2> SUFFICES ASSUME NEW r \in Honest, roundNumber'[r] = 2
               PROVE  /\ view'[r][r] = "D"
                      /\ \A q \in Others(r) : Sign1(q, view'[r][q]) \in sent'[q]
                      /\ \A q \in Parties \ Signers : view'[r][q] = Nobody
    BY <1>8, <1>9 DEF ViewBacked
  <2>1. CASE r = p
    BY <1>2, <1>5, <1>7, <1>8, <2>1
  <2>2. CASE r # p
    <3>1. roundNumber[r] = 2 /\ view'[r] = view[r]
      BY <1>7, <2>2
    <3> QED
      BY <1>5, <1>8, <3>1 DEF IInv, ViewBacked
  <2> QED
    BY <2>1, <2>2
<1>13. OutputBacked'
  <2> SUFFICES ASSUME NEW r \in Honest, output[r] # Nobody
               PROVE  /\ r \in Signers /\ roundNumber'[r] = 2 /\ output[r] = view'[r]
                      /\ \A q \in Signers : Sign2(q, output[r]) \in sent'[q]
    BY <1>9 DEF OutputBacked
  <2>1. r # p
    BY DEF IInv, OutputOrError
  <2>2. roundNumber'[r] = roundNumber[r] /\ view'[r] = view[r]
    BY <1>7, <2>1
  <2> QED
    BY <1>5, <2>2, SignersAreParties DEF IInv, OutputBacked
<1>14. BlameSound'
  BY <1>5, SentGrows
<1>15. Absent'
  BY DEF IInv, TypeOK, Absent, Signers
<1>16. OutputOrError' /\ Waited'
  BY DEF IInv, OutputOrError, Waited
<1> QED
  BY <1>5, <1>6, <1>10, <1>11, <1>12, <1>13, <1>14, <1>15, <1>16 DEF IInv, Maps

\* Round 2 ends: all shares are for the commitments that p has, and the
\* signature is there.
LEMMA Advance2IInv ==
    ASSUME IInv, NEW p \in Honest, p \in Signers, ~done[p], ~ending[p], HaveAll(p),
           Rejected(p) = {}, roundNumber[p] = 2,
           output' = [output EXCEPT ![p] = view[p]],
           received' = [received EXCEPT ![p] = NoMessages(p)],
           finish(p), pc' = [pc EXCEPT ![p] = "Receive"],
           UNCHANGED <<roundNumber, queue, err, view, channel, sent, callback, wait, seen,
                       dups, env>>
    PROVE  IInv'
<1>1. /\ timer' \in [Honest -> BOOLEAN] /\ done' \in [Honest -> BOOLEAN]
      /\ ending' \in [Honest -> BOOLEAN]
      /\ done'[p] \/ ending'[p]
      /\ \A r \in Honest \ {p} :
            timer'[r] = timer[r] /\ done'[r] = done[r] /\ ending'[r] = ending[r]
  BY FinishEffect
<1>2. /\ IsMap(received) /\ output \in [Honest -> Views \cup {Nobody}]
      /\ view[p] \in Views /\ view[p] # Nobody
      /\ err[p] = Nobody /\ output[p] = Nobody
  BY Distinct DEF IInv, Maps, TypeOK, OutputOrError
<1>3. \A r : Others(r)' = Others(r)
  BY DEF Others, Signers
<1>4. Signers' = Signers /\ Signers \subseteq Parties
  BY SignersAreParties DEF IInv, Signers
<1>5. received' = [r \in Honest |-> IF r = p THEN NoMessages(p) ELSE received[r]]
  BY <1>2 DEF IsMap
<1>6. NoMessages(p) \in [Others(p) -> Messages \cup {NilMsg, Nobody}]
      /\ \A q \in Others(p) : NoMessages(p)[q] = Nobody
  BY DEF NoMessages
<1>7. IsMap(received)' /\ Held'
  <2>1. IsMap(received)'
    BY <1>5 DEF IsMap
  <2> SUFFICES ASSUME NEW r \in Honest, NEW q \in Others(r)
               PROVE  IF roundNumber[r] = 0 THEN received'[r][q] = NilMsg
                      ELSE received'[r][q] # Nobody =>
                              /\ received'[r][q] \in sent[q]
                              /\ received'[r][q].type = roundNumber[r]
    BY <1>3, <2>1 DEF Held
  <2>2. CASE r = p
    <3>1. received'[r][q] = Nobody /\ roundNumber[r] = 2
      BY <1>5, <1>6, <2>2
    <3> QED
      BY <3>1
  <2>3. CASE r # p
    <3>1. received'[r][q] = received[r][q]
      BY <1>5, <2>3
    <3> QED
      BY <3>1 DEF IInv, Held
  <2> QED
    BY <2>2, <2>3
<1>8. /\ output' \in [Honest -> Views \cup {Nobody}] /\ output'[p] = view[p]
      /\ \A r \in Honest \ {p} : output'[r] = output[r]
  BY <1>2
<1>9. TypeOK'
  <2>1. pc' \in [Honest -> {"Absent", "Receive", "ProcessAll"}]
    BY DEF IInv, TypeOK
  <2>2. \A r \in Honest : received'[r] \in [Others(r) -> Messages \cup {NilMsg, Nobody}]
    BY <1>5, <1>6 DEF IInv, TypeOK
  <2> QED
    BY <1>1, <1>3, <1>8, <2>1, <2>2 DEF IInv, TypeOK
<1>10. \A q \in Signers : Sign2(q, view[p]) \in sent[q]
  <2> TAKE q \in Signers
  <2>1. CASE q = p
    BY <2>1 DEF IInv, HonestSent
  <2>2. CASE q \in Others(p)
    <3>1. received[p][q] \in sent[q] /\ received[p][q].type = 2
      BY <2>2 DEF IInv, Held, HaveAll
    <3>2. received[p][q].share = view[p]
      BY <2>2 DEF Rejected, ProcessMessage
    <3>3. received[p][q] \in Messages /\ received[p][q].from = q
      BY <1>4, <3>1 DEF IInv, TypeOK, Authored
    <3>4. received[p][q] = Sign2(q, view[p])
      BY <1>4, <3>1, <3>2, <3>3, MessageShape
    <3> QED
      BY <3>1, <3>4
  <2> QED
    BY <2>1, <2>2 DEF Others
<1>11. OutputBacked'
  <2> SUFFICES ASSUME NEW r \in Honest, output'[r] # Nobody
               PROVE  /\ r \in Signers /\ roundNumber[r] = 2 /\ output'[r] = view[r]
                      /\ \A q \in Signers : Sign2(q, output'[r]) \in sent[q]
    BY <1>4 DEF OutputBacked
  <2>1. CASE r = p
    BY <1>8, <1>10, <2>1
  <2>2. CASE r # p
    BY <1>8, <2>2 DEF IInv, OutputBacked
  <2> QED
    BY <2>1, <2>2
<1>12. OutputOrError'
  <2> SUFFICES ASSUME NEW r \in Honest
               PROVE  IF done'[r] \/ ending'[r]
                      THEN (output'[r] = Nobody) # (err[r] = Nobody)
                      ELSE output'[r] = Nobody /\ err[r] = Nobody
    BY DEF OutputOrError
  <2>1. CASE r = p
    BY <1>1, <1>2, <1>8, <2>1
  <2>2. CASE r # p
    <3>1. done'[r] = done[r] /\ ending'[r] = ending[r] /\ output'[r] = output[r]
      BY <1>1, <1>8, <2>2
    <3> QED
      BY <3>1 DEF IInv, OutputOrError
  <2> QED
    BY <2>1, <2>2
<1>13. Waited'
  <2> SUFFICES ASSUME NEW r \in Waiters
               PROVE  /\ wait[r] \in {"checked", "returned"} => done'[r]
                      /\ wait[r] = "returned" => seen[r] = err[r]
    BY DEF Waited
  <2>1. r \in Honest
    BY SignAssumption DEF Honest
  <2>2. CASE r = p
    BY <2>2 DEF IInv, Waited
  <2>3. CASE r # p
    BY <1>1, <2>1, <2>3 DEF IInv, Waited
  <2> QED
    BY <2>2, <2>3
<1>14. Absent'
  <2> SUFFICES ASSUME NEW r \in Honest, r \notin Signers
               PROVE  /\ pc'[r] = "Absent" /\ ~timer'[r] /\ ~callback[r]
                      /\ ~ending'[r] /\ ~done'[r]
    BY <1>4 DEF Absent
  <2> QED
    BY <1>1 DEF IInv, TypeOK, Absent
<1>15. Authored' /\ Carried' /\ Queued' /\ HonestSent' /\ ViewBacked' /\ BlameSound'
  BY <1>3, <1>4 DEF IInv, Authored, Carried, Queued, HonestSent, ViewBacked, BlameSound,
                    Equivocated
<1>16. IsMap(queue)' /\ IsMap(channel)'
  BY DEF IInv, Maps, IsMap
<1> QED
  BY <1>7, <1>9, <1>11, <1>12, <1>13, <1>14, <1>15, <1>16 DEF IInv, Maps

\* ProcessAll waits, reports an error or completes a round.
LEMMA ProcessAllIInv == ASSUME NEW p \in Honest PROVE IInv /\ ProcessAll(p) => IInv'
<1> SUFFICES ASSUME IInv, ProcessAll(p) PROVE IInv'
  OBVIOUS
<1>1. /\ pc[p] = "ProcessAll" /\ ~ending[p]
      /\ pc' = [pc EXCEPT ![p] = "Receive"]
      /\ UNCHANGED <<callback, wait, seen, dups, env>>
  BY DEF ProcessAll
<1>2. p \in Signers
  BY <1>1 DEF IInv, Absent
<1>3. /\ pc' \in [Honest -> {"Absent", "Receive", "ProcessAll"}]
      /\ \A r \in Honest \ {p} : pc'[r] = pc[r]
  BY <1>1 DEF IInv, TypeOK
<1>4. CASE UNCHANGED <<state, timer, ending, channel, sent>>
  <2>1. UNCHANGED <<roundNumber, received, queue, done, err, view, output, timer, ending,
                    channel, sent, callback, wait, seen, dups, env>>
    BY <1>1, <1>4 DEF state
  <2>2. Protocol'
    BY <2>1, ProtocolFrame DEF IInv, Protocol
  <2>3. TypeOK'
    BY <1>3, <2>1 DEF IInv, TypeOK, Others, Signers
  <2>4. Absent' /\ OutputOrError' /\ BlameSound' /\ Waited'
    BY <1>2, <1>3, <2>1 DEF IInv, Absent, OutputOrError, BlameSound, Equivocated, Waited,
                            Signers
  <2> QED
    BY <2>2, <2>3, <2>4 DEF IInv, Protocol
<1>5. CASE /\ ~done[p] /\ HaveAll(p)
           /\ \E q \in Rejected(p) : reportError(p, q)
           /\ UNCHANGED <<channel, sent>>
  <2>1. PICK q \in Rejected(p) : reportError(p, q)
    BY <1>5
  <2>2. q \in Parties /\ (q \in Faulty \/ Equivocated)
    BY <1>2, <1>5, RejectedBlame
  <2>3. q \in Parties \cup {Nobody} /\ (q \in Faulty \cup {Nobody} \/ Equivocated)
    BY <2>2
  <2>4. /\ callback' \in [Honest -> BOOLEAN]
        /\ \A r \in Honest \ {p} : pc'[r] = pc[r] /\ callback'[r] = callback[r]
    BY <1>1, <1>3 DEF IInv, TypeOK
  <2>5. UNCHANGED <<wait, seen, channel, dups, sent, env>> /\ ~done[p] /\ ~ending[p]
    BY <1>1, <1>5
  <2> QED
    BY <1>2, <1>3, <2>1, <2>3, <2>4, <2>5, ReportErrorIInv, Zenon
<1>6. CASE ~done[p] /\ HaveAll(p) /\ Rejected(p) = {} /\ Advance(p)
  <2>1. CASE roundNumber[p] = 0
    <3>1. /\ Broadcast(p, Sign1(p, "D")) /\ Unqueue(p, 1)
          /\ roundNumber' = [roundNumber EXCEPT ![p] = 1]
          /\ UNCHANGED <<done, err, view, output, timer, ending, callback, wait, seen, dups, env>>
      BY <1>1, <1>6, <2>1 DEF Advance
    <3> QED
      BY <1>1, <1>2, <1>6, <2>1, <3>1, Advance0IInv, Zenon
  <2>2. CASE roundNumber[p] = 1
    <3>1. /\ view' = [view EXCEPT ![p] = NewView(p)]
          /\ Broadcast(p, Sign2(p, NewView(p))) /\ Unqueue(p, 2)
          /\ roundNumber' = [roundNumber EXCEPT ![p] = 2]
          /\ UNCHANGED <<done, err, output, timer, ending, callback, wait, seen, dups, env>>
      BY <1>1, <1>6, <2>2 DEF Advance
    <3> QED
      BY <1>1, <1>2, <1>6, <2>2, <3>1, Advance1IInv, Zenon
  <2>3. CASE roundNumber[p] = 2
    <3>1. /\ output' = [output EXCEPT ![p] = view[p]]
          /\ received' = [received EXCEPT ![p] = NoMessages(p)]
          /\ finish(p)
          /\ UNCHANGED <<roundNumber, queue, err, view, channel, sent, callback, wait, seen,
                         dups, env>>
      BY <1>1, <1>6, <2>3 DEF Advance
    <3> QED
      BY <1>1, <1>2, <1>6, <2>3, <3>1, Advance2IInv, Zenon
  <2> QED
    BY <1>6, <2>1, <2>2, <2>3 DEF Advance
<1> QED
  BY <1>4, <1>5, <1>6 DEF ProcessAll

-----------------------------------------------------------------------------
(* Safety *)

\* Every step preserves the invariant.
LEMMA NextIInv == IInv /\ [Next]_vars => IInv'
<1> SUFFICES ASSUME IInv, [Next]_vars PROVE IInv'
  OBVIOUS
<1>1. CASE UNCHANGED vars
  BY <1>1, StutterIInv
<1>2. ASSUME NEW p \in Honest,
             Receive(p) \/ ProcessAll(p) \/ Lose(p) \/ Expire(p) \/ Callback(p) \/ Finish(p)
      PROVE  IInv'
  BY <1>2, ReceiveIInv, ProcessAllIInv, LoseIInv, ExpireIInv, CallbackIInv, FinishIInv
<1>3. ASSUME NEW p \in Waiters, WaitForError(p) PROVE IInv'
  BY <1>3, WaitForErrorIInv
<1>4. ASSUME NEW q \in Faulty \cap Signers, Misbehave(q) PROVE IInv'
  BY <1>4, MisbehaveIInv
<1> QED
  BY <1>1, <1>2, <1>3, <1>4 DEF Next

\* The invariant holds in every state that the parties reach.
LEMMA Invariance == Spec => []IInv
BY InitIInv, NextIInv, PTL DEF Spec

\* The fields of State have their types, whatever arrives in which order.
THEOREM SignTypeCorrect == Spec => []TypeOK
<1>1. IInv => TypeOK
  BY DEF IInv
<1> QED
  BY <1>1, Invariance, PTL

\* An error (reportError of state.go) never names an honest party, unless a
\* faulty one has sent different commitments to different parties.
THEOREM SignBlameSound == Spec => []BlameSound
<1>1. IInv => BlameSound
  BY DEF IInv
<1> QED
  BY <1>1, Invariance, PTL

\* A finished party has either a signature or an error, and a party that is
\* not finished neither (ProcessAll, reportError and finish of state.go).
THEOREM SignOutputOrError == Spec => []OutputOrError
<1>1. IInv => OutputOrError
  BY DEF IInv
<1> QED
  BY <1>1, Invariance, PTL

\* Whoever outputs a signature has a share of every signer for the very
\* commitments it holds, and all who output one output the same (round2.go),
\* however many parties are faulty.
THEOREM SignSignatureBacked == Spec => []SignatureBacked
<1>1. IInv => SignatureBacked
  <2> SUFFICES ASSUME IInv, NEW p \in Honest, output[p] # Nobody
               PROVE  /\ \A q \in Signers : Sign2(q, output[p]) \in sent[q]
                      /\ \A q \in Honest : output[q] \in {output[p], Nobody}
    BY DEF SignatureBacked
  <2>1. \A q \in Signers : Sign2(q, output[p]) \in sent[q]
    BY DEF IInv, OutputBacked
  <2>2. ASSUME NEW q \in Honest, output[q] # Nobody PROVE output[q] = output[p]
    <3>1. q \in Signers /\ output[q] = view[q]
      BY <2>2 DEF IInv, OutputBacked
    <3>2. Sign2(q, output[p]) = Sign1(q, "D") \/ Sign2(q, output[p]) = Sign2(q, view[q])
      BY <2>1, <3>1 DEF IInv, HonestSent
    <3>3. /\ Sign2(q, output[p]).type = 2 /\ Sign1(q, "D").type = 1
          /\ Sign2(q, output[p]).share = output[p] /\ Sign2(q, view[q]).share = view[q]
      BY DEF Sign1, Sign2
    <3> QED
      BY <3>1, <3>2, <3>3
  <2> QED
    BY <2>1, <2>2
<1> QED
  BY <1>1, Invariance, PTL

\* WaitForError returns nil exactly if there is a signature, although it reads
\* done and err without the mutex.
THEOREM SignSafeToUse == Spec => []SafeToUse
<1>1. IInv => SafeToUse
  <2> SUFFICES ASSUME IInv, NEW p \in Waiters, wait[p] = "returned"
               PROVE  (seen[p] = Nobody) = (output[p] # Nobody)
    BY DEF SafeToUse
  <2>1. p \in Honest /\ done[p] /\ seen[p] = err[p]
    BY SignAssumption DEF IInv, Waited, Honest
  <2>2. (output[p] = Nobody) # (err[p] = Nobody)
    BY <2>1 DEF IInv, OutputOrError
  <2> QED
    BY <2>1, <2>2
<1> QED
  BY <1>1, Invariance, PTL

\* Nothing that happens after finish changes the result: no late message, no
\* timer callback that was waiting for the mutex.
THEOREM SignResultIsFinal == Spec => ResultIsFinal
<1> DEFINE Kept == \A p \in Honest : done[p] =>
                      done'[p] /\ output'[p] = output[p] /\ err'[p] = err[p]
<1>1. IInv /\ [Next]_vars => [Kept]_vars
  <2> SUFFICES ASSUME IInv, Next, NEW p \in Honest, done[p]
               PROVE  done'[p] /\ output'[p] = output[p] /\ err'[p] = err[p]
    OBVIOUS
  <2>1. /\ done \in [Honest -> BOOLEAN] /\ output \in [Honest -> Views \cup {Nobody}]
        /\ err \in [Honest -> Errors \cup {Nobody}]
    BY DEF IInv, TypeOK
  <2>2. ASSUME NEW r \in Honest, finish(r) PROVE done'[p]
    BY <2>1, <2>2 DEF finish
  <2>3. ASSUME NEW r \in Honest, Receive(r) PROVE UNCHANGED <<done, output, err>>
    BY <2>3 DEF Receive, HandleMessage, state
  <2>4. ASSUME NEW r \in Honest, Lose(r) \/ Expire(r) PROVE UNCHANGED <<done, output, err>>
    BY <2>4 DEF Lose, Expire, state
  <2>5. ASSUME NEW r \in Honest, NEW c, r # p, reportError(r, c)
        PROVE  done'[p] /\ output'[p] = output[p] /\ err'[p] = err[p]
    BY <2>1, <2>2, <2>5 DEF reportError
  <2>6. ASSUME NEW r \in Honest, Callback(r)
        PROVE  done'[p] /\ output'[p] = output[p] /\ err'[p] = err[p]
    <3>1. CASE done[r]
      BY <2>6, <3>1 DEF Callback, state
    <3>2. CASE ~done[r]
      <4>1. r # p /\ reportError(r, Nobody)
        BY <2>6, <3>2 DEF Callback
      <4> QED
        BY <2>5, <4>1
    <3> QED
      BY <3>1, <3>2
  <2>7. ASSUME NEW r \in Honest, Finish(r)
        PROVE  done'[p] /\ output'[p] = output[p] /\ err'[p] = err[p]
    BY <2>1, <2>7 DEF Finish
  <2>8. ASSUME NEW r \in Honest, ProcessAll(r)
        PROVE  done'[p] /\ output'[p] = output[p] /\ err'[p] = err[p]
    <3>1. CASE UNCHANGED <<state, timer, ending, channel, sent>>
      BY <3>1 DEF state
    <3>2. CASE ~done[r] /\ \E q \in Rejected(r) : reportError(r, q)
      BY <2>5, <3>2
    <3>3. CASE ~done[r] /\ Advance(r)
      <4>1. r # p /\ err' = err /\ output'[p] = output[p]
        BY <2>1, <3>3 DEF Advance
      <4>2. done' = done \/ finish(r)
        BY <3>3 DEF Advance
      <4> QED
        BY <2>2, <4>1, <4>2
    <3> QED
      BY <2>8, <3>1, <3>2, <3>3 DEF ProcessAll
  <2>9. ASSUME NEW r \in Waiters, WaitForError(r) PROVE UNCHANGED <<done, output, err>>
    BY <2>9 DEF WaitForError, state
  <2>10. ASSUME NEW q \in Faulty \cap Signers, Misbehave(q) PROVE UNCHANGED <<done, output, err>>
    BY <2>10 DEF Misbehave, state
  <2> QED
    BY <2>3, <2>4, <2>6, <2>7, <2>8, <2>9, <2>10 DEF Next
<1> QED
  BY <1>1, Invariance, PTL DEF Spec, ResultIsFinal

-----------------------------------------------------------------------------
(* Refinement of Signing *)

\* The abstract state.
Shares ==
    UNION {{[party |-> q, session |-> m.share] : m \in {n \in sent[q] : n.type = 2}} :
               q \in Parties}

Signed ==
    {[party |-> p, session |-> output[p]] : p \in {q \in Honest : output[q] # Nobody}}

Failed == {p \in Honest : err[p] # Nobody}

\* Before the first message nothing is released or signed.
LEMMA InitRefines == Init => Abstract!Init
<1> SUFFICES ASSUME Init PROVE Abstract!Init
  OBVIOUS
<1>1. Signers \in SUBSET Parties
  BY SignAssumption DEF Init, Signers, Env
<1>2. Shares = {} /\ Signed = {} /\ Failed = {}
  BY DEF Init, Shares, Signed, Failed
<1> QED
  BY <1>1, <1>2 DEF Abstract!Init, Shares, Signed, Failed

\* A step that sends nothing and leaves the results alone is a stutter.
LEMMA StutterRefines ==
    UNCHANGED <<output, err, sent, env>> => UNCHANGED Abstract!svars
BY DEF Abstract!svars, Signers

\* A party without a result is pending.
LEMMA PendingRefines ==
    ASSUME NEW p \in Honest, output[p] = Nobody, err[p] = Nobody
    PROVE  Abstract!Pending(p)
BY DEF Abstract!Pending

\* Reporting an error is Abort.
LEMMA AbortRefines ==
    ASSUME IInv, NEW p \in Honest, p \in Signers, ~done[p], ~ending[p],
           NEW c \in Parties \cup {Nobody}, reportError(p, c), UNCHANGED <<sent, env>>
    PROVE  Abstract!Next
<1>1. /\ output[p] = Nobody /\ err[p] = Nobody
      /\ err \in [Honest -> Errors \cup {Nobody}] /\ roundNumber[p] \in 0 .. 2
  BY DEF IInv, OutputOrError, TypeOK
<1>2. /\ output' = output
      /\ err' = [err EXCEPT ![p] = [culprit |-> c, round |-> roundNumber[p]]]
  BY DEF reportError
<1>3. [culprit |-> c, round |-> roundNumber[p]] # Nobody
  BY <1>1, Distinct DEF Errors
<1>4. Failed' = Failed \cup {p} /\ Shares' = Shares /\ Signed' = Signed /\ Signers' = Signers
  BY <1>1, <1>2, <1>3 DEF Failed, Shares, Signed, Signers
<1>5. Abstract!Pending(p)
  BY <1>1, PendingRefines
<1>6. Abstract!Abort(p)
  BY <1>4, <1>5 DEF Abstract!Abort, Failed, Shares, Signed
<1> QED
  BY <1>6 DEF Abstract!Next, Honest

\* The end of round 1 is Release.
LEMMA ReleaseRefines ==
    ASSUME IInv, NEW p \in Honest, p \in Signers, ~done[p], ~ending[p], HaveAll(p),
           roundNumber[p] = 1, Broadcast(p, Sign2(p, NewView(p))),
           UNCHANGED <<output, err, env>>
    PROVE  Abstract!Next
<1> DEFINE w == NewView(p)
           x == [party |-> p, session |-> w]
<1>1. w \in Views /\ Broadcast(p, Sign2(p, w))
  BY NewViewBacked
<1>2. output[p] = Nobody /\ err[p] = Nobody /\ p \in Parties
  BY DEF IInv, OutputOrError, Honest
<1> HIDE DEF w
<1>3. Sign2(p, w) \in Messages /\ Sign2(p, w).from = p /\ Sign2(p, w).type = 2
      /\ Sign2(p, w).share = w
  BY <1>1, <1>2, MessageShape DEF Sign2
<1>4. /\ \A r \in Parties \ {p} : sent'[r] = sent[r]
      /\ sent'[p] = sent[p] \cup {Sign2(p, w)}
  BY <1>1, <1>3, BroadcastEffect
<1>5. \A m \in sent[p] : m.type # 2
  BY DEF IInv, HonestSent, Sign1
<1>6. \A y \in Shares : y.party # p
  BY <1>5 DEF Shares
<1>7. Shares' = Shares \cup {x}
  <2>1. ASSUME NEW y PROVE y \in Shares' <=> y \in Shares \/ y = x
    <3>1. y \in Shares' <=> \E q \in Parties : \E m \in sent'[q] :
                                m.type = 2 /\ y = [party |-> q, session |-> m.share]
      BY DEF Shares
    <3>2. y \in Shares <=> \E q \in Parties : \E m \in sent[q] :
                                m.type = 2 /\ y = [party |-> q, session |-> m.share]
      BY DEF Shares
    <3> QED
      BY <1>2, <1>3, <1>4, <3>1, <3>2
  <2> QED
    BY <2>1
<1>8. x \in Shares' \ Shares /\ x.party = p /\ x.session \in Views
  BY <1>1, <1>6, <1>7
<1>9. Signed' = Signed /\ Failed' = Failed /\ Signers' = Signers
  BY DEF Signed, Failed, Signers
<1>10. Abstract!Pending(p)
  BY <1>2, PendingRefines
<1> HIDE DEF x
<1>11. Abstract!Release(p)
  BY <1>6, <1>7, <1>8, <1>9, <1>10 DEF Abstract!Release, Shares, Signed, Failed
<1> QED
  BY <1>11 DEF Abstract!Next, Honest

\* The end of round 2 is Complete.
LEMMA CompleteRefines ==
    ASSUME IInv, IInv', NEW p \in Honest, p \in Signers, ~done[p], ~ending[p],
           output' = [output EXCEPT ![p] = view[p]], UNCHANGED <<err, sent, env>>
    PROVE  Abstract!Next
<1> DEFINE x == [party |-> p, session |-> view[p]]
<1>1. /\ output[p] = Nobody /\ err[p] = Nobody
      /\ output \in [Honest -> Views \cup {Nobody}]
      /\ view[p] \in Views /\ view[p] # Nobody
  BY Distinct DEF IInv, OutputOrError, TypeOK
<1>2. output'[p] = view[p] /\ \A r \in Honest \ {p} : output'[r] = output[r]
  BY <1>1
<1>3. Signed' = Signed \cup {x}
  BY <1>1, <1>2 DEF Signed
<1>4. x \in Signed' \ Signed /\ x.party = p /\ x.session = view[p]
  BY <1>1, <1>3 DEF Signed
<1>5. Shares' = Shares /\ Failed' = Failed /\ Signers' = Signers
  BY DEF Shares, Failed, Signers
<1>6. ASSUME NEW q \in Signers PROVE [party |-> q, session |-> view[p]] \in Shares
  <2>1. Sign2(q, view[p]) \in sent[q]
    BY <1>1, <1>2, <1>5 DEF IInv, OutputBacked
  <2>2. q \in Parties /\ Sign2(q, view[p]).type = 2 /\ Sign2(q, view[p]).share = view[p]
    BY SignersAreParties DEF IInv, Sign2
  <2> QED
    BY <2>1, <2>2 DEF Shares
<1>7. Abstract!Pending(p)
  BY <1>1, PendingRefines
<1> HIDE DEF x
<1>8. \A q \in Signers : Abstract!For(q, x.session) \in Shares
  BY <1>4, <1>6 DEF Abstract!For
<1>9. Abstract!Complete(p)
  BY <1>1, <1>3, <1>4, <1>5, <1>7, <1>8 DEF Abstract!Complete, Shares, Signed, Failed
<1> QED
  BY <1>9 DEF Abstract!Next, Honest

\* What a faulty signer sends is ReleaseAny.
LEMMA MisbehaveRefines ==
    ASSUME IInv, NEW q \in Faulty \cap Signers, Misbehave(q)
    PROVE  Abstract!Next
<1>1. UNCHANGED <<output, err, env>>
  BY DEF Misbehave, state
<1>2. q \in Parties /\ sent \in [Parties -> SUBSET Messages]
  BY SignAssumption DEF IInv, TypeOK
<1>3. \E S : sent' = [sent EXCEPT ![q] = sent[q] \cup S]
  BY DEF Misbehave, Send
<1>4. sent[q] \subseteq sent'[q] /\ \A r \in Parties \ {q} : sent'[r] = sent[r]
  BY <1>2, <1>3
<1>5. Shares \subseteq Shares' /\ \A y \in Shares' \ Shares : y.party = q
  <2>1. ASSUME NEW y
        PROVE  /\ y \in Shares' <=> \E r \in Parties : \E m \in sent'[r] :
                                       m.type = 2 /\ y = [party |-> r, session |-> m.share]
               /\ y \in Shares <=> \E r \in Parties : \E m \in sent[r] :
                                       m.type = 2 /\ y = [party |-> r, session |-> m.share]
    BY DEF Shares
  <2>2. ASSUME NEW y \in Shares PROVE y \in Shares'
    BY <1>4, <2>1
  <2>3. ASSUME NEW y \in Shares', y \notin Shares PROVE y.party = q
    <3>1. PICK r \in Parties : \E m \in sent'[r] :
                  m.type = 2 /\ y = [party |-> r, session |-> m.share]
      BY <2>1
    <3>2. r = q
      BY <1>4, <2>1, <2>3, <3>1
    <3> QED
      BY <3>1, <3>2
  <2> QED
    BY <2>2, <2>3
<1>6. Signed' = Signed /\ Failed' = Failed /\ Signers' = Signers
  BY <1>1 DEF Signed, Failed, Signers
<1>7. Abstract!ReleaseAny(q)
  BY <1>5, <1>6 DEF Abstract!ReleaseAny, Shares, Signed, Failed
<1> QED
  BY <1>7 DEF Abstract!Next

\* Every step of the code is a step of Signing or leaves it unchanged.
LEMMA NextRefines ==
    IInv /\ IInv' /\ [Next]_vars => [Abstract!Next]_(Abstract!svars)
<1> SUFFICES ASSUME IInv, IInv', [Next]_vars PROVE [Abstract!Next]_(Abstract!svars)
  OBVIOUS
<1>1. CASE UNCHANGED vars
  BY <1>1, StutterRefines DEF vars, state
<1>2. ASSUME NEW p \in Honest, Receive(p) \/ Lose(p) \/ Expire(p) \/ Finish(p)
      PROVE  UNCHANGED Abstract!svars
  <2>1. UNCHANGED <<output, err, sent, env>>
    BY <1>2 DEF Receive, HandleMessage, Lose, Expire, Finish, state
  <2> QED
    BY <2>1, StutterRefines
<1>3. ASSUME NEW p \in Waiters, WaitForError(p) PROVE UNCHANGED Abstract!svars
  BY <1>3, StutterRefines DEF WaitForError, state
<1>4. ASSUME NEW p \in Honest, Callback(p) PROVE [Abstract!Next]_(Abstract!svars)
  <2>1. CASE done[p]
    BY <1>4, <2>1, StutterRefines DEF Callback, state
  <2>2. CASE ~done[p]
    <3>1. ~ending[p] /\ reportError(p, Nobody) /\ UNCHANGED <<sent, env>> /\ p \in Signers
      BY <1>4, <2>2 DEF Callback, IInv, Absent
    <3> QED
      BY <2>2, <3>1, AbortRefines
  <2> QED
    BY <2>1, <2>2
<1>5. ASSUME NEW p \in Honest, ProcessAll(p) PROVE [Abstract!Next]_(Abstract!svars)
  <2>1. ~ending[p] /\ p \in Signers /\ env' = env
    BY <1>5 DEF ProcessAll, IInv, Absent
  <2>2. CASE UNCHANGED <<state, timer, ending, channel, sent>>
    BY <2>1, <2>2, StutterRefines DEF state
  <2>3. CASE /\ ~done[p] /\ \E q \in Rejected(p) : reportError(p, q)
             /\ UNCHANGED <<channel, sent>>
    <3>1. PICK q \in Rejected(p) : reportError(p, q)
      BY <2>3
    <3>2. q \in Parties \cup {Nobody}
      BY <3>1, SignersAreParties DEF IInv, Rejected, Others
    <3> QED
      BY <2>1, <2>3, <3>1, <3>2, AbortRefines
  <2>4. CASE ~done[p] /\ HaveAll(p) /\ Advance(p)
    <3>1. CASE roundNumber[p] = 0
      <4>1. Broadcast(p, Sign1(p, "D")) /\ UNCHANGED <<output, err, env>>
        BY <2>1, <2>4, <3>1 DEF Advance
      <4>2. Sign1(p, "D") \in Messages /\ Sign1(p, "D").from = p /\ Sign1(p, "D").type = 1
        BY Distinct, MessageShape DEF Sign1, Honest
      <4>3. /\ \A r \in Parties \ {p} : sent'[r] = sent[r]
            /\ sent'[p] = sent[p] \cup {Sign1(p, "D")}
        BY <2>1, <4>1, <4>2, BroadcastEffect
      <4>4. \A r \in Parties : {n \in sent'[r] : n.type = 2} = {n \in sent[r] : n.type = 2}
        BY <4>2, <4>3
      <4>5. Shares' = Shares
        BY <4>4 DEF Shares
      <4> QED
        BY <4>1, <4>5 DEF Abstract!svars, Shares, Signers
    <3>2. CASE roundNumber[p] = 1
      <4>1. Broadcast(p, Sign2(p, NewView(p))) /\ UNCHANGED <<output, err, env>>
        BY <2>1, <2>4, <3>2 DEF Advance
      <4> QED
        BY <2>1, <2>4, <3>2, <4>1, ReleaseRefines
    <3>3. CASE roundNumber[p] = 2
      <4>1. output' = [output EXCEPT ![p] = view[p]] /\ UNCHANGED <<err, sent, env>>
        BY <2>1, <2>4, <3>3 DEF Advance
      <4> QED
        BY <2>1, <2>4, <4>1, CompleteRefines
    <3> QED
      BY <2>4, <3>1, <3>2, <3>3 DEF Advance
  <2> QED
    BY <1>5, <2>2, <2>3, <2>4 DEF ProcessAll
<1>6. ASSUME NEW q \in Faulty \cap Signers, Misbehave(q) PROVE Abstract!Next
  BY <1>6, MisbehaveRefines
<1> QED
  BY <1>1, <1>2, <1>3, <1>4, <1>5, <1>6 DEF Next

\* The State of every honest party, with its timer and the goroutines that
\* feed it, implements Signing: one share for one session, a signature only
\* for a session that every signer has released a share for, one result.
THEOREM SignRefinesSigning == Spec => ImplementsSigning
BY InitRefines, NextRefines, Invariance, PTL DEF Spec, ImplementsSigning, Abstract!Spec
=============================================================================
