------------------------------- MODULE SignState -------------------------------
(***************************************************************************)
(* The two-round FROST signing without coordinator: at each party a State  *)
(* (pkg/state/state.go) that runs the rounds of pkg/frost/sign, a handler  *)
(* goroutine that feeds it (HandleMessage, then ProcessAll, per message),  *)
(* the message timer, and the channels between the parties.                *)
(*                                                                         *)
(* Rounds and message types are numbered as in the code: round 0 expects   *)
(* nothing, round 1 Sign1 messages (commitments), round 2 Sign2 messages   *)
(* (shares).  acceptedTypes is the tail of <<None, Sign1, Sign2>> that     *)
(* starts at the current round, so the round number determines it.         *)
(*                                                                         *)
(* Curve arithmetic is symbolic: a commitment is "D", another one "E" that *)
(* only faulty parties use, or the identity, and a share is the list of    *)
(* commitments it was computed for.                                        *)
(***************************************************************************)
EXTENDS Integers, FiniteSets, Sequences, SequencesExt

CONSTANTS
    Parties,  \* those who have a share of the key
    Faulty,   \* parties that send what they like, or nothing
    Equivocal, \* TRUE: a faulty signer may tell each party something else
    Envs,     \* the surroundings the parties may run in
    Waiters,  \* the honest parties with a goroutine in WaitForError
    MaxDup,   \* bound: messages delivered twice
    Nobody    \* the culprit 0, no entry in a map, no error, no output

\* The signers; channels in causal order, FIFO per sender, or without order, and whether
\* they lose messages; whether the State was created with a timeout; the loop
\* that feeds it, that of the tests' Handler or that of example/main.go.
Env == [signers : SUBSET Parties,
        order : {"causal", "fifo", "any"}, lossy : BOOLEAN,
        timeout : BOOLEAN, loop : {"Handler", "MessageRoutine"}]

ASSUME SignAssumption ==
    /\ IsFiniteSet(Parties)
    /\ Faulty \subseteq Parties
    /\ Waiters \subseteq Parties \ Faulty
    /\ Envs \subseteq Env
    /\ Equivocal \in BOOLEAN
    /\ MaxDup \in Nat
    /\ Nobody \notin Parties

Honest == Parties \ Faulty

\* The honest parties send "D"; a second commitment matters only if it differs.
Commitments == {"D", "identity"} \cup IF Equivocal THEN {"E"} ELSE {}

Views == [Parties -> Commitments \cup {Nobody}]

Sign1(q, c) == [from |-> q, type |-> 1, commitment |-> c, share |-> Nobody]

Sign2(q, z) == [from |-> q, type |-> 2, commitment |-> Nobody, share |-> z]

\* A share that verifies for no list of commitments.
Garbage == [q \in Parties |-> Nobody]

\* The entry NewBaseState puts into receivedMessages for each other party.
NilMsg == [from |-> Nobody, type |-> 0, commitment |-> Nobody, share |-> Nobody]

VARIABLES
    \* State, for each honest party.  queue[p][t][q] is the last message of type
    \* t from q in the queue: an earlier one would be overwritten by it when it
    \* is taken out, and no other order in the queue is observed.
    roundNumber, received, queue, done, err,
    \* the round: the commitments known, and the signature
    view, output,
    \* the timer, and whether its callback has started but not got the lock
    timer, callback,
    \* the handler goroutine: what it does next
    pc,
    \* the mutex is held by a goroutine that has written the result and has yet
    \* to call finish
    ending,
    \* the goroutine in WaitForError, and the error it has returned
    wait, seen,
    \* the surroundings, which do not change
    env,
    \* channel[p]: messages on their way to p, in the order they were sent
    channel, dups, \* dups: deliveries that left a copy behind
    \* history: the messages each party has broadcast
    sent

Signers == env.signers

Others(p) == Signers \ {p}

NoMessages(p) == [q \in Others(p) |-> Nobody]

state == <<roundNumber, received, queue, done, err, view, output>>

threads == <<callback, pc, ending, wait, seen>>

vars == <<state, timer, threads, channel, dups, sent, env>>

Init ==
    /\ env \in Envs
    /\ roundNumber = [p \in Honest |-> 0]
    /\ received = [p \in Honest |-> [q \in Others(p) |-> NilMsg]]
    /\ queue = [p \in Honest |-> [t \in 1 .. 2 |-> NoMessages(p)]]
    /\ done = [p \in Honest |-> FALSE]
    /\ err = [p \in Honest |-> Nobody]
    /\ view = [p \in Honest |-> [q \in Parties |-> Nobody]]
    /\ output = [p \in Honest |-> Nobody]
    /\ timer = [p \in Honest |-> p \in Signers /\ env.timeout]
    /\ callback = [p \in Honest |-> FALSE]
    /\ pc = [p \in Honest |-> IF p \notin Signers THEN "Absent"
                            ELSE IF env.loop = "Handler" THEN "ProcessAll" ELSE "Receive"]
    /\ ending = [p \in Honest |-> FALSE]
    /\ wait = [p \in Waiters |-> "started"]
    /\ seen = [p \in Waiters |-> Nobody]
    /\ channel = [p \in Honest |-> <<>>]
    /\ dups = 0
    /\ sent = [p \in Parties |-> {}]

\* Party q sends m[p] to every other signer p.
Send(q, m) ==
    /\ channel' = [p \in Honest |->
                      IF p \in Others(q) THEN Append(channel[p], m[p]) ELSE channel[p]]
    /\ sent' = [sent EXCEPT ![q] = @ \cup {m[p] : p \in Honest}]

\* Comm.Send of a broadcast.
Broadcast(q, m) == Send(q, [p \in Honest |-> m])

-----------------------------------------------------------------------------
(* HandleMessage *)

\* The message is stored or queued: done, sender and type checks have passed.
Accepts(p, m) ==
    /\ ~done[p]
    /\ received[p][m.from] = Nobody
    /\ m.type >= roundNumber[p]

\* Mutant: the timer is stopped and not started again.
ackMessageStops(p) == timer' = [timer EXCEPT ![p] = FALSE]

ackMessage(p) == timer' = [timer EXCEPT ![p] = env.timeout]

\* Mutant: a message of a later round is stored like one of this round.
HandleMessageUnqueued(p, m) ==
    \/ /\ Accepts(p, m)
       /\ ackMessage(p)
       /\ received' = [received EXCEPT ![p][m.from] = m]
       /\ UNCHANGED <<roundNumber, queue, done, err, view, output>>
    \/ /\ ~Accepts(p, m)
       /\ UNCHANGED <<state, timer>>

HandleMessage(p, m) ==
    \/ /\ Accepts(p, m)
       /\ ackMessage(p)
       /\ IF m.type = roundNumber[p]
          THEN /\ received' = [received EXCEPT ![p][m.from] = m]
               /\ UNCHANGED queue
          ELSE /\ queue' = [queue EXCEPT ![p][m.type][m.from] = m]
               /\ UNCHANGED received
       /\ UNCHANGED <<roundNumber, done, err, view, output>>
    \/ /\ ~Accepts(p, m)
       /\ UNCHANGED <<state, timer>>

\* The messages that may be the next to reach p: the oldest one, the oldest
\* one of some sender, or any.
Arrivals(p) ==
    {i \in DOMAIN channel[p] :
        \A j \in 1 .. i - 1 :
            \/ env.order = "any"
            \/ env.order = "fifo" /\ channel[p][j].from # channel[p][i].from}

\* The Handler calls ProcessAll after every message, MessageRoutine only if
\* HandleMessage had no error.
GoesOn(p, m) == env.loop = "Handler" \/ Accepts(p, m)

Receive(p) ==
    /\ pc[p] = "Receive"
    /\ ~ ending[p]
    /\ \E i \in Arrivals(p) :
          /\ HandleMessage(p, channel[p][i])
          /\ pc' = [pc EXCEPT ![p] =
                       IF GoesOn(p, channel[p][i]) THEN "ProcessAll" ELSE "Receive"]
          /\ \/ /\ channel' = [channel EXCEPT ![p] = RemoveAt(@, i)]
                /\ UNCHANGED dups
             \/ /\ dups < MaxDup
                /\ dups' = dups + 1
                /\ UNCHANGED channel
    /\ UNCHANGED <<callback, ending, wait, seen, sent, env>>

\* The transport loses a message.
Lose(p) ==
    /\ env.lossy
    /\ \E i \in Arrivals(p) : channel' = [channel EXCEPT ![p] = RemoveAt(@, i)]
    /\ UNCHANGED <<state, timer, threads, dups, sent, env>>

-----------------------------------------------------------------------------
(* ProcessAll *)

\* finish follows at once, or, where somebody may be looking without the mutex,
\* as a step of its own.
finish(p) ==
    \/ /\ p \notin Waiters
       /\ done' = [done EXCEPT ![p] = TRUE]
       /\ timer' = [timer EXCEPT ![p] = FALSE]
       /\ UNCHANGED ending
    \/ /\ p \in Waiters
       /\ ending' = [ending EXCEPT ![p] = TRUE]
       /\ UNCHANGED <<done, timer>>

\* done is set, the round wiped (view stays, as history), the timer stopped,
\* doneChan closed.
Finish(p) ==
    /\ ending[p]
    /\ ending' = [ending EXCEPT ![p] = FALSE]
    /\ done' = [done EXCEPT ![p] = TRUE]
    /\ timer' = [timer EXCEPT ![p] = FALSE]
    /\ UNCHANGED <<roundNumber, received, queue, err, view, output, callback, pc,
                   wait, seen, channel, dups, sent, env>>

\* Mutant: culprit and round change places.
reportErrorSwapped(p, culprit) ==
    /\ err' = [err EXCEPT ![p] = [culprit |-> roundNumber[p], round |-> culprit]]
    /\ finish(p)
    /\ UNCHANGED <<roundNumber, received, queue, view, output>>

\* Only called when p is not done; culprit is Nobody if none can be named.
reportError(p, culprit) ==
    /\ err' = [err EXCEPT ![p] = [culprit |-> culprit, round |-> roundNumber[p]]]
    /\ finish(p)
    /\ UNCHANGED <<roundNumber, received, queue, view, output>>

\* Mutant: one message too many is waited for.
HaveAllPlusOne(p) ==
    Cardinality({q \in Others(p) : received[p][q] # Nobody}) = Cardinality(Signers)

HaveAll(p) == \A q \in Others(p) : received[p][q] # Nobody

\* Mutant: shares are not verified.
ProcessMessageLax(p, m) == roundNumber[p] = 1 => m.commitment # "identity"

\* Round.ProcessMessage accepts m at p.
ProcessMessage(p, m) ==
    /\ roundNumber[p] = 1 => m.commitment # "identity"
    /\ roundNumber[p] = 2 => m.share = view[p]

Rejected(p) == {q \in Others(p) : ~ProcessMessage(p, received[p][q])}

\* The messages of this type move from the queue to receivedMessages, which is
\* empty before.
Unqueue(p, type) ==
    /\ received' = [received EXCEPT ![p] = queue[p][type]]
    /\ queue' = [queue EXCEPT ![p][type] = NoMessages(p)]

\* The commitments p holds once it has processed the Sign1 messages.
NewView(p) ==
    [q \in Parties |-> IF q = p THEN "D"
                       ELSE IF q \in Signers THEN received[p][q].commitment ELSE Nobody]

\* GenerateMessages of rounds 0, 1 and 2, the queue, and NextRound.
Advance(p) ==
    \/ /\ roundNumber[p] = 0
       /\ Broadcast(p, Sign1(p, "D"))
       /\ Unqueue(p, 1)
       /\ roundNumber' = [roundNumber EXCEPT ![p] = 1]
       /\ UNCHANGED <<done, err, view, output, timer, ending>>
    \/ /\ roundNumber[p] = 1
       /\ view' = [view EXCEPT ![p] = NewView(p)]
       /\ Broadcast(p, Sign2(p, NewView(p)))
       /\ Unqueue(p, 2)
       /\ roundNumber' = [roundNumber EXCEPT ![p] = 2]
       /\ UNCHANGED <<done, err, output, timer, ending>>
    \/ /\ roundNumber[p] = 2
       /\ output' = [output EXCEPT ![p] = view[p]]
       /\ received' = [received EXCEPT ![p] = NoMessages(p)]
       /\ finish(p)
       /\ UNCHANGED <<roundNumber, queue, err, view, channel, sent>>

\* Mutant: ProcessAll does not look at done.
ProcessAllThoughDone(p) ==
    /\ pc[p] = "ProcessAll"
    /\ ~ ending[p]
    /\ pc' = [pc EXCEPT ![p] = "Receive"]
    /\ \/ /\ ~HaveAll(p)
          /\ UNCHANGED <<state, timer, ending, channel, sent>>
       \/ /\ HaveAll(p)
          /\ \E q \in Rejected(p) : reportError(p, q)
          /\ UNCHANGED <<channel, sent>>
       \/ /\ HaveAll(p)
          /\ Rejected(p) = {}
          /\ Advance(p)
    /\ UNCHANGED <<callback, wait, seen, dups, env>>

ProcessAll(p) ==
    /\ pc[p] = "ProcessAll"
    /\ ~ ending[p]
    /\ pc' = [pc EXCEPT ![p] = "Receive"]
    /\ \/ /\ done[p] \/ ~HaveAll(p)
          /\ UNCHANGED <<state, timer, ending, channel, sent>>
       \/ /\ ~done[p] /\ HaveAll(p)
          /\ \E q \in Rejected(p) : reportError(p, q)
          /\ UNCHANGED <<channel, sent>>
       \/ /\ ~done[p] /\ HaveAll(p)
          /\ Rejected(p) = {}
          /\ Advance(p)
    /\ UNCHANGED <<callback, wait, seen, dups, env>>

-----------------------------------------------------------------------------
(* The timer *)

\* The time runs out and the callback starts; it has to wait for the mutex, so
\* messages may still be handled before it runs.
Expire(p) ==
    /\ timer[p]
    /\ timer' = [timer EXCEPT ![p] = FALSE]
    /\ callback' = [callback EXCEPT ![p] = TRUE]
    /\ UNCHANGED <<state, pc, ending, wait, seen, channel, dups, sent, env>>

\* Mutant: reportError does not look at done.
CallbackThoughDone(p) ==
    /\ callback[p]
    /\ ~ ending[p]
    /\ callback' = [callback EXCEPT ![p] = FALSE]
    /\ reportError(p, Nobody)
    /\ UNCHANGED <<pc, wait, seen, channel, dups, sent, env>>

Callback(p) ==
    /\ callback[p]
    /\ ~ ending[p]
    /\ callback' = [callback EXCEPT ![p] = FALSE]
    /\ \/ done[p] /\ UNCHANGED <<state, timer, ending>>
       \/ ~done[p] /\ reportError(p, Nobody)
    /\ UNCHANGED <<pc, wait, seen, channel, dups, sent, env>>

-----------------------------------------------------------------------------
(* WaitForError reads done and err without the mutex.  The two reads are in *)
(* the order of the code.                                                   *)

Unblocks(p) == wait[p] = "blocked" /\ done[p]

\* Mutant: the error is read before done.
WaitForErrorEarly(p) ==
    /\ wait' = [wait EXCEPT ![p] = CASE wait[p] = "started" -> "checked"
                                     [] wait[p] = "checked" -> IF done[p] THEN "returned" ELSE "blocked"
                                     [] wait[p] = "blocked" -> "returned"]
    /\ wait[p] \in {"started", "checked"} \/ Unblocks(p)
    /\ seen' = IF wait[p] = "started" THEN [seen EXCEPT ![p] = err[p]] ELSE seen
    /\ UNCHANGED <<state, timer, callback, pc, ending, channel, dups, sent, env>>

WaitForError(p) ==
    /\ \/ /\ wait[p] = "started"
          /\ wait' = [wait EXCEPT ![p] = IF done[p] THEN "checked" ELSE "blocked"]
          /\ UNCHANGED seen
       \/ /\ Unblocks(p)
          /\ wait' = [wait EXCEPT ![p] = "checked"]
          /\ UNCHANGED seen
       \/ /\ wait[p] = "checked"
          /\ wait' = [wait EXCEPT ![p] = "returned"]
          /\ seen' = [seen EXCEPT ![p] = err[p]]
    /\ UNCHANGED <<state, timer, callback, pc, ending, channel, dups, sent, env>>

-----------------------------------------------------------------------------
(* The system *)

\* What a faulty party tells the others, out of the set S.
Told(S) == IF Equivocal THEN [Honest -> S] ELSE {[p \in Honest |-> x] : x \in S}

\* A faulty party sends at most one message of each type: a commitment that
\* may be the identity, a share that may be right or garbage.
Misbehave(q) ==
    /\ \/ /\ \A m \in sent[q] : m.type # 1
          /\ \E c \in Told(Commitments) : Send(q, [p \in Honest |-> Sign1(q, c[p])])
       \/ /\ \A m \in sent[q] : m.type # 2
          /\ \E z \in Told({view[p] : p \in Honest} \cup {Garbage}) :
                Send(q, [p \in Honest |-> Sign2(q, z[p])])
    /\ UNCHANGED <<state, timer, threads, dups, env>>

Next ==
    \/ \E p \in Honest : Receive(p) \/ ProcessAll(p) \/ Lose(p)
                            \/ Expire(p) \/ Callback(p) \/ Finish(p)
    \/ \E p \in Waiters : WaitForError(p)
    \/ \E q \in Faulty \cap Signers : Misbehave(q)

Spec == Init /\ [][Next]_vars

\* The goroutines of the honest parties run, messages that are not lost
\* arrive, and time passes.
Fairness ==
    \A p \in Honest :
        /\ WF_vars(Receive(p))
        /\ WF_vars(ProcessAll(p))
        /\ WF_vars(Expire(p))
        /\ WF_vars(Callback(p))
        /\ WF_vars(Finish(p))
        /\ p \in Waiters => WF_vars(WaitForError(p))

FairSpec == Spec /\ Fairness

-----------------------------------------------------------------------------
(* Properties *)

Messages ==
    [from : Parties, type : {1}, commitment : Commitments, share : {Nobody}]
    \cup [from : Parties, type : {2}, commitment : {Nobody}, share : Views]

Errors == [culprit : Parties \cup {Nobody}, round : 0 .. 2]

\* Nobody stands for nil and for the party ID 0, which is no valid ID.
ASSUME NobodyAssumption ==
    Nobody \notin Messages \cup {NilMsg} \cup Errors \cup Views \cup Commitments

\* The variables have the types of the fields of State.
TypeOK ==
    /\ env \in Envs /\ dups \in 0 .. MaxDup
    /\ roundNumber \in [Honest -> 0 .. 2]
    /\ \A p \in Honest :
          /\ received[p] \in [Others(p) -> Messages \cup {NilMsg, Nobody}]
          /\ queue[p] \in [1 .. 2 -> [Others(p) -> Messages \cup {Nobody}]]
          /\ channel[p] \in Seq(Messages)
    /\ view \in [Honest -> Views]
    /\ output \in [Honest -> Views \cup {Nobody}]
    /\ err \in [Honest -> Errors \cup {Nobody}]
    /\ {done, timer, callback, ending} \subseteq [Honest -> BOOLEAN]
    /\ pc \in [Honest -> {"Absent", "Receive", "ProcessAll"}]
    /\ wait \in [Waiters -> {"started", "blocked", "checked", "returned"}]
    /\ seen \in [Waiters -> Errors \cup {Nobody}]
    /\ sent \in [Parties -> SUBSET Messages]

\* A faulty party has committed to different nonces towards different parties.
Equivocated ==
    \E q \in Faulty : \E m1, m2 \in sent[q] : m1.type = 1 /\ m2.type = 1 /\ m1 # m2

\* An honest party that aborts never accuses an honest one: the culprit of an
\* Error (pkg/state/error.go) is faulty, whatever is late, repeated or wrong,
\* as long as commitments are broadcast, so that all parties see the same ones.
BlameSound ==
    \A p \in Honest :
        err[p] # Nobody => err[p].culprit \in Faulty \cup {Nobody} \/ Equivocated

\* A party that outputs a signature holds a share of every signer, made for
\* the commitments it has itself: all of them agreed to this very session, and
\* everybody who outputs a signature outputs the same (test/sign_test.go), even
\* if a faulty signer commits to different nonces towards different parties.
SignatureBacked ==
    \A p \in Honest : output[p] # Nobody =>
        /\ \A q \in Signers : Sign2(q, output[p]) \in sent[q]
        /\ \A q \in Honest : output[q] \in {output[p], Nobody}

\* A finished party has a signature or an error, never both, and neither
\* appears before the party is done (or about to be).
OutputOrError ==
    \A p \in Honest : IF done[p] \/ ending[p]
                      THEN (output[p] = Nobody) # (err[p] = Nobody)
                      ELSE output[p] = Nobody /\ err[p] = Nobody

\* "It is safe to use the output when State.WaitForError() returns nil"
\* (pkg/frost/frost.go), although it looks at done and err without the mutex
\* while the handler or the timer may be writing them: it returns nil exactly
\* if there is a signature.
SafeToUse ==
    \A p \in Waiters :
        wait[p] = "returned" => (seen[p] = Nobody) = (output[p] # Nobody)

\* The result of a finished party never changes, even when a timer callback
\* was already waiting for the mutex as the last share came in.
ResultIsFinal ==
    [][\A p \in Honest : done[p] =>
          done'[p] /\ output'[p] = output[p] /\ err'[p] = err[p]]_vars

\* With a timeout no party waits for ever, whatever is lost or withheld: its
\* State ends, and WaitForError returns.
EveryoneEnds ==
    \A p \in Honest :
        p \in Signers /\ env.timeout ~> done[p] /\ (p \in Waiters => wait[p] = "returned")

\* README: the State "takes care of storing messages, passing them to the
\* round at the right time": if nobody is faulty, nothing is lost and there
\* is no timeout, the Handler gets everybody the signature.
Undisturbed == Signers \cap Faulty = {} /\ ~ env.lossy /\ ~ env.timeout /\ env.loop = "Handler"

EveryoneSigns == \A p \in Honest : p \in Signers /\ Undisturbed ~> output[p] # Nobody

\* Signing: an honest party releases one share, for the commitments it has
\* seen, and outputs a signature only for a session that every signer has
\* released a share for.
Abstract ==
    INSTANCE Signing WITH
        Sessions <- Views,
        group    <- Signers,
        shares   <- UNION {{[party |-> q, session |-> m.share] :
                               m \in {n \in sent[q] : n.type = 2}} : q \in Parties},
        signed   <- {[party |-> p, session |-> output[p]] :
                        p \in {q \in Honest : output[q] # Nobody}},
        failed   <- {p \in Honest : err[p] # Nobody}

ImplementsSigning == Abstract!Spec
=============================================================================
