# Verification of frost-ed25519

TLA+ models of the protocols in this repository, checked with TLC on small
instances, with theorems checked by TLAPS. Source paths are relative to the root
of the repository. `T` is always the number of signers needed, `c.t = threshold
+ 1` in the code; `n` is the number of parties.

## The system

| Part | State it keeps | Operations | Where |
|---|---|---|---|
| ROAST coordinator | `responsive`, `malicious`, `preShares`, `signerSID`, `sessions`, `sidCounter`, `signature`, `done`, under one mutex | `HandleResponse` (calls `initiateSession`, `markMalicious`) | `pkg/roast/coordinator.go` |
| ROAST session | signer set, commitments, shares received | `NewSession`, `ValidateAndStore`, `IsComplete`; `ShareVal`, `SignAgg` | `pkg/roast/session.go`, `crypto.go` |
| ROAST signer | the nonce pair it will spend next | `Init`, `Sign` | `pkg/roast/signer.go` |
| Reputation coordinator | the coordinator's fields and `weights` | `HandleResponse`, `reward`, `decayNonParticipants` | `pkg/roast/reputation.go` |
| ROAST command line | pending requests, round, sessions counted | one loop that calls signers and coordinator | `cmd/roast/roast.go` |
| State | accepted types, received messages, queue, round, `done`, `err`, timer, under one mutex | `HandleMessage`, `ProcessAll`, timer callback; `WaitForError`, which does not take the mutex | `pkg/state/` |
| FROST signing rounds | normalised shares, nonces, commitments, binding factors, signature shares | `NewRound`; `ProcessMessage`, `GenerateMessages`, `NextRound` for rounds 0, 1, 2; `Reset` | `pkg/frost/sign/` |
| Message handler | one goroutine per party | `HandleMessage` then `ProcessAll` per message | `test/internal/communication/`, `example/main.go` |
| Key generation and signing commands | the key file; one `State` per signer and the messages of a pass | `SimulateSession` and `OutputToFROST`; three passes of `PartyRoutine` | `cmd/keygen`, `cmd/signer`, `pkg/helpers` |
| ChillDKG | participants in three steps, a relaying coordinator, a certificate, recovery data | `ParticipantStep1/2/Finalize`, `CoordinatorStep1/Finalize`, `Recover` | `pkg/frost/chilldkg/` |
| Polynomials | none (values) | evaluation, sums, encoding of polynomials and their images in the group | `pkg/internal/polynomial` |
| Schnorr proofs | none (values) | prove, verify, encode; nothing calls them | `pkg/internal/zk` |
| Party IDs, keys, messages, group | none (values) | arithmetic and encodings | `pkg/frost/party`, `pkg/eddsa`, `pkg/messages`, `pkg/ristretto` |

How they interact. ChillDKG makes the key shares. A signing then runs either as
ROAST, where a coordinator sends sign requests to signers and gets shares back,
or as plain FROST, where each party runs a `State` and broadcasts to all others.
The library has no transport: `cmd/roast` calls both sides of ROAST from one
loop, `cmd/signer` calls the `State`s of all signers in turn, the tests connect them
by Go channels or UDP.

What is hard. In ROAST: answers of many signers interleave, some never come,
some are wrong or come at the wrong moment, several sessions are open at once,
and three maps must stay in step. In ChillDKG: the coordinator may tell everybody
something else, shares arrive only as an encrypted sum, and a participant may
crash between signing and finalising. In the `State`: messages of the next round
arrive before this one is complete, messages are repeated or lost, the timer
callback races the last message, and `WaitForError` looks without the mutex. Across
packages: the same formulas are written twice (FROST and ROAST) or three times
(polynomials), and key generation and signing count shares and parties differently. `PROJECT.json` lists these hazards with their
lines and the properties that cover them.

What makes each part correct. The coordinator: nobody is pending twice, the
number of sessions is bounded, honest signers are not banned, the first complete
session yields the signature, and T honest signers suffice. The signer: a nonce
pair is spent once. The reputation coordinator: it is still a ROAST coordinator,
and its weights mean what they say. ChillDKG: whoever gets a key gets the same key,
it can be used, it comes back after a crash, and nobody honest is accused. The
`State`: results are final, blame is just, a signature is backed by everybody,
everybody ends. Key generation and signing together: exactly the sets of signers
that hold enough shares of the key can sign.

## Modules

In the signing models cryptography is symbolic. A commitment is a token, and a signature
share is the record of what it was computed from: the nonce spent and the
commitments of the session, which determine signer set, binding factors,
aggregate nonce and challenge. `ShareVal` compares that record with the session,
and `Verify` asks that the summands of a signature are exactly the right shares.
That a wrong sum may verify by chance is left out. `FrostSign` and `RoastCrypto`
compute instead, in a small group, and `ShareCheckExact` and `RoastAgrees` say that
the symbolic checks are exact.

**RoastSession** models `session.go` and `crypto.go` (`NewSession`, `ShareVal`,
`Validate` and `Store` for the two halves of `ValidateAndStore`, `IsComplete`,
`SignAgg`, and `Verify` of `pkg/eddsa`). It has no variables.

**RoastCoordinator** models `coordinator.go`. Its variables are the fields of
`Coordinator` and `reply`, the results of the last call. `HandleResponse` is the
disjunction of the handler's paths: `AlreadyComplete`, `SignerMalicious`,
`Unsolicited`, `InvalidShare`, `Finish`, and the accepted answers `Enlist` (no
session opened) and `Launch` (`initiateSession`, whose signer set is any T of the
responsive signers, since Go iterates over a map). `Next` lets every signer call
at any time with any share and any pre-signature share; a pre-signature share is
never nil.

**Roast** composes the coordinator with honest signers (`signer.go`), other
signers that send what they like, and channels that reorder and, up to `MaxDup`
times, deliver twice. The k-th nonce pair of a signer is the number k.

**ReputationCoordinator** models `reputation.go` on its own and is shown to
implement `RoastCoordinator` (`Base!Spec`). Weights are integers in units chosen
so that `reward` is exact; the decay by `Gamma` rounds down.

**RoastDriver** composes the coordinator with the loop of `cmd/roast/roast.go`:
`Feed` is one pass of the first loop, `Skip` and `Visit` one pass over the
pending requests, in the order of a Go map, `EndRound` the end of a round.

**Signing** says what a FROST signing promises, whatever carries the messages. A
session is the list of commitments the signers sent. A signer that follows the code
releases one share, for one session (`Release`); it gets a signature only for a
session for which every signer of the group has released a share (`Complete`); and a
result is kept. `SignState` and `KeygenSign` implement it (`ImplementsSigning`).

**SignState** models `pkg/state`, the rounds of `pkg/frost/sign` and the goroutine
that feeds the `State`, for every honest party. `Receive` is `State.HandleMessage`,
`ProcessAll` is `State.ProcessAll` with the round's `ProcessMessage` and
`GenerateMessages`, and they are separate steps because the mutex is released
between them. `Expire` starts the timer callback, `Callback` is the callback once
it holds the mutex. For the parties in `Waiters` a second goroutine is in
`WaitForError`: it reads `done`, waits for `doneChan`, and reads `err` in steps of
its own, and `finish` is a step (`Finish`) after the one that wrote the result,
during which the mutex is held (`ending`). `Envs` is the set of surroundings a run
covers: who signs; channels in the order of sending (`"causal"`), FIFO per sender
(`"fifo"`: the Go channels of the tests, whose senders run independently) or without
order (`"any"`: UDP), lossy or not; a timeout or none; and the loop, that of the
tests' `Handler` or `MessageRoutine` of the example, which calls `ProcessAll` only
after a message that was accepted. The queue is kept as the last message of each type
and sender: `ProcessAll` takes all messages of a type out at once and a later one of
the same sender overwrites an earlier one, so nothing else of it can be observed.

**Group** has scalars, group elements, polynomials (`vss.go`) and Lagrange
coefficients (`party.ID.Lagrange`, `computeGroupKey`) in a group of prime order Q,
here the powers of 4 modulo 11, of order 5. The operators are those of the code;
only the curve is replaced. **Keys** adds `NewPublic` and what is read back from a
key file, **Polynomial** `pkg/internal/polynomial` and the dealer of `pkg/helpers`.

**ChillDKG** models `pkg/frost/chilldkg` on top of it. There is one action for
each exported step: `ParticipantStep1`, `ParticipantStep2` (all three layers, with
their checks in order in `Step2Error`), `ParticipantFinalize`, `CoordinatorStep1`,
`CoordinatorFinalize`, `Recover`; `Crash` loses what a participant has in memory.
Shares, commitments and encryption are computed. The hash is an arbitrary constant
operator, so that the proofs hold for any hash; a Schnorr signature is the record
of key and message, which only the owner of the key makes. `Honest` and
`coord.honest` say who follows the code. Faulty participants send wrong
shares, the identity, a polynomial of another degree (`Degrees`), or wrong proofs and
signatures (`Forge`, `FaultyStep1`, `FaultyStep2`). A faulty coordinator builds its own
message for each participant, with up to `MaxForged` contributions replaced and with
more or fewer commitments, and its own certificate, also for recovery. No step counts
commitments. A coordinator that follows the code has room for t of them
(`sumComsToNonconstTerms`): a shorter list is filled up with the identity, a longer one
makes it panic (`TooLong`). A participant takes what it gets, and `Recover` refuses a
transcript that does not have t (`RecoverFrom`). Everybody has the same parameters,
since they are in the context of every pad and in the transcript. All other lists have
n entries and a commitment has at least one: a missing entry would make whoever reads
it panic.

**FrostSign** models the signing rounds once more, with their arithmetic: `NewRound`
(shares times Lagrange coefficients), nonces, binding factors, challenge, the check
of each share, aggregation and `Verify`, the encoding of the messages, and `Reset`
(`past` is history: the round before it was wiped). The signers run in lock step, as
in `cmd/signer`: `ReadKeys`, `NewStates`, then three passes of `PartyRoutine`, each
over the signers in any order (a Go map), and `Conclude`. Lock step reaches only a
part of `State` (no queue, no timer); that part is modelled here, `SignState` has the
rest. The share a signer holds may be off by an element of `Offsets`, for instance
because it is one of an earlier key. The command signs with all parties, the tests
with some; `Groups` has both, and sets that are too small.

**RoastCrypto** is `pkg/roast/crypto.go`, the second implementation of these
formulas, as operators.

**KeygenSign** composes: a key comes from a ChillDKG session (`Keygen`, the end of
`cmd/keygen`) or from a dealer (`Deal`, `setupParties` of the tests), and then
`FrostSign` signs with it. The coordinator is part of the command and follows the code
(`KeygenAssumption`).

**Schnorr** models `pkg/internal/zk`: a proof is made, encoded, decoded and checked
against any statement. Buffers are modelled with their lengths.

**MC** modules add symmetry sets and hash functions; the `.cfg` files give the constants values.

## Runs

| Run | Question | Result |
|---|---|---|
| `roast_coordinator` | Do the maps stay in step, whatever five signers do (T = 3)? | `PendingOnce`, `Accountable`, `SessionBound`, `NoSessionWasted`, `NoIdleQuorum`, `OpenedIsAnnounced`, `BannedForGood` hold |
| `roast` | Two of four signers misbehave, one message may arrive twice | As long as nothing arrives twice no honest signer is banned and T honest ones are enough; a nonce or a commitment is never used twice |
| `reputation` | Is it a ROAST coordinator, and what do weights do? | It is; weights track standing and never decide who signs |
| `roast_driver` | Does the command always produce a signature? | Yes, within two rounds |
| `sign_faulty` | A faulty signer that may tell everybody something else, reordering, a repetition, timeouts | Blame is just unless commitments differ, a signature is backed by all, a result is output or error and final, `Signing` is implemented |
| `sign_live` | Do the parties end, and may the caller trust `WaitForError`? | With a timeout everybody ends, though messages are lost or nobody starts; with arrival in the order of sending and no timeout everybody signs; `nil` means that there is a signature |
| `sign_fifo` | And if only each sender's messages are in order? | **No**, see Findings |
| `sign_any` | And with reordering, two parties? | **No**, see Findings |
| `keygen_sign` | Does a key made by ChillDKG or a dealer sign, with whom, and whose fault is it if not? | `AllKeyed`: every session with valid parameters gives everybody a key, and `OutputToFROST` takes it unless t = n. `EnoughSign`: enough signers with shares of the key sign. `OnlyTheKeySigns`: nobody else. `StaleShareNamed`: a wrong share is charged to its holder or to nobody. `ShareCheckExact`, `RoastAgrees`, `ExponentAgrees`: the formulas agree. `Signing` is implemented |
| `dkg_faulty` | A faulty participant; a coordinator that may show everybody something else, with any number of commitments; crashes | `Agreement` holds whatever the coordinator does. `DKGBlameSound`: if it follows the code, nobody honest is accused. `Recoverable`: if the transcript has t commitments everybody can recover, otherwise nobody. `UsableKey`: as many shares as the transcript has commitments make the key. If the coordinator follows the code the number is t; if not, it may be another one, see Findings |
| `dkg_threshold` | Do t shares leave the secret open? | **No**, see Findings |
| `schnorr` | Does a proof hold for its statement only? | **No**, see Findings |

Bounds. Three participants allow t below, at and above n - 1, and errors of two
contributions that cancel. Two honest ones among them and a coordinator that
replaces any contribution are enough to show them different transcripts. In a group
of order 5 a wrong value passes a check only if it equals the right one, because
discrete logarithms are unique; the faults of the model differ. `Degrees` = {1, 2} gives
commitments with one more than t = 2 and with one fewer than t = 3. `MaxForged` = 2
leaves of each message one contribution that is genuine: a participant refuses a message
in which its own is replaced, and all others may be.

In `keygen_sign` all thresholds from 0 to n + 1 and two bad lists of host keys are
tried, and groups of one, two and three signers, so that there are too few, just
enough and more than enough. One share may be wrong, or two that make up for each
other if all three sign. Each signer draws one of two nonce pairs. The hash of the
binding factors and of the challenge takes every value, 0 included (with a challenge
of 0 a signature says nothing about the key, which `OnlyTheKeySigns` excepts). A
dealer's coefficients come from {1, 3}; polynomials have one to three coefficients.
`sign_live` has three parties, two of them with a waiting goroutine, and one to leave
out, so that a lost message, a smaller group and the unmutexed reads all happen; `wait` in
`sign_faulty` would multiply states without a new question, so `Waiters` is empty
there.

Five signers with T = 3 allow three concurrent sessions, the bound itself, with signers that are pending, responsive, silent and banned at once. Four
signers with two honest ones are the smallest system with T = 2 in which the
others can block two sessions. `MaxNonce` exceeds the number of sessions a signer
can be in (at most n - T + 1, which is proved), so no signer runs out of nonces;
with a duplicated request one more. Seven signers in `roast_driver` give silent
signers in several sessions. Three parties are the smallest number for which a
fast party can overtake a slow one in `SignState`; two are enough for the missing
second `ProcessAll`. `MaxDup = 1` is one repetition anywhere.

Fairness. `Roast!FairSpec` is weakly fair to each honest signer's `Init`, to its
answering, and to the delivery of its answers; nothing is asked of the others.
`SignState!FairSpec` is weakly fair to the goroutine and the timer of each honest
party and to its `WaitForError`; losing messages is never forced, and whether there
is a timeout is part of the surroundings. `RoastDriver` is a sequential program and
is weakly fair as a whole. `KeygenSign!KFairSpec` is weakly fair to the steps of each
participant and of the coordinator, because `SimulateSession` calls each as soon as
its inputs are there, and to the two commands; it is used only where everybody
follows the code. Its last conjunct spells out weak fairness of `FNext` with
`SignerRuns` in the place of `ENABLED FNext`, which TLC would have to compute by
trying all nonces.
Deadlock checking is off where the program really stops: in `RoastDriver`,
`SignState`, `ChillDKG`, `KeygenSign` and `Schnorr`.

## Proofs

Eight modules hold theorems, each for one component, for every value of the constants
that its assumptions admit. Together they state every safety property that a passing
run checks: all invariants, all action properties and all refinements.

| Module | Proves |
|---|---|
| `RoastCoordinator_proofs` | every property of `roast_coordinator` |
| `Roast_proofs` | `HonestNeverBanned`, `NonceSpentOnce`, `CommitmentUsedOnce`; the system is an environment of the coordinator |
| `ReputationCoordinator_proofs` | every property of `reputation`, the refinement of `RoastCoordinator` included |
| `RoastDriver_proofs` | `TwoRounds`; the program never fails; it is an environment of the coordinator |
| `SignState_proofs` | every safety property of `sign_faulty` and `sign_live`, the refinement of `Signing` included |
| `Group_proofs` | interpolation, of scalars and of points, in every group of prime order |
| `ChillDKG_proofs` | every property of `dkg_faulty` |
| `KeygenSign_proofs` | every safety property of `keygen_sign`, the refinement of `Signing` included |

**RoastCoordinator_proofs**: any finite set of signers and any threshold the
constructor admits (`RoastAssumption`, `NilAssumption`). None of the properties is
inductive alone. The inductive invariant `IInv` adds to them: `WellFormed` (a session
has exactly T signers, which are those whose commitments entered it, and shares only
of them), `SharesValid` (stored shares verify), `WaitingOK` (a responsive signer is not
banned, has a pre-signature share and owes nothing) and `PendingOK` (until the end
`signerSID` points at a session that really waits). There is one lemma for each kind of
step: `MarkIInv`, `FinishIInv`, `EnlistIInv`, `LaunchIInv`.

The bound on sessions is a pigeonhole argument (`RoomForOneMore`). When a session
is opened every older one is incomplete, so it waits for somebody (`Blocker`); by
`PendingOnce` nobody blocks two sessions and no responsive signer blocks any; so
there are at most n - T older sessions. `EveryoneIsChosen` uses `NoIdleQuorum`:
there were fewer than T responsive signers before the call, so the session takes
all of them. `Announced` counts again: T responsive signers leave at most n - T
banned ones.

**Roast_proofs** extends it: the honest signers, the others and the channels together
make only calls that the coordinator's `Next` allows (`RoastIsCoordinator`), so `IInv`
holds of the whole system and is part of the argument. `Outcome` sums up what a call
can come to. The invariant `RInv` adds what the coordinator knows of an honest signer
and what the signer has done. `Drawn` and `Spent`: commitments anywhere come from pairs
the signer has drawn, and spent pairs are older than the one it holds, which gives
`NonceSpentOnce`. `Ascending`: the commitment on file is newer than those of the
sessions the signer has answered, which gives `CommitmentUsedOnce`, also when an old
answer is delivered again, because such an answer is refused or bans its sender. `InStep`,
as long as nothing was delivered twice: at most one message is on its way between the
two, and it is the one that the coordinator's maps make it expect, which gives
`HonestNeverBanned`. The number of duplicates and of nonces is arbitrary.

**ReputationCoordinator_proofs**: any configuration that `Validate` accepts
(`ConfigAssumption`), in units small enough that one decay of the initial weight is not
rounded to 0 (`UnitAssumption`; in the code weights are floating point). Its invariant
needs no account of who is pending: `Waiting` (no quorum waits between two calls),
`SessionsSound` (each session has T signers, those whose commitments entered it, and
only valid shares of them), and `Weighed` (until the end no weight is below the initial one but
those of banned signers). A complete session always verifies (`CompleteVerifies`), so
the decay that the code performs before it verifies happens once, at the end. The
refinement forgets the weights: `Finish` maps to `Finish`, an accepted answer to
`Enlist` or `Launch`, where the T signers of greatest weight are one of the choices of
a Go map (`NextRefines`).

**RoastDriver_proofs**: IDs are numbers and there are enough nonces
(`DriverAssumption`). Signers are fed by increasing ID, and when all are fed, fewer than T are
left without a session; these have the greatest IDs, and at most n - T signers are
silent, so they all answer (`LastAreLoud`, `Leftover`). Hence every session opened in
the first round consists of signers that answer (`FromLoud`). At least T signers answer
(`SilentCount`, by pigeonhole on the number of smaller IDs) and fewer than T are left
at the end of the round, so there is such a session; all its shares are in when the
second round is over (`LastSession`), and then it is complete, which `NoSessionWasted`
excludes while the program runs. `Nonces` and `Requested` say that the answers the
program makes up are the ones the coordinator waits for; `Accepted` then shows that none
is refused.

**SignState_proofs**: any set of parties, faulty ones and signers, with loss,
repetition and any order (`SignAssumption`), where `Nobody` is none of the values it
stands in for (`NobodyAssumption`). The invariant `IInv` follows a message from its sender to the
round that consumes it: what is on a channel, received or queued was sent by the party it
names and has the type of the round that will see it (`Authored`, `Carried`, `Held`,
`Queued`); an honest party sends one commitment and one share, for the commitments it
has in round 2 (`HonestSent`), and these were sent by those they belong to
(`ViewBacked`); an output is backed by a share of every signer (`OutputBacked`). `Waited`
says what `WaitForError` may rely on. There is one lemma per action. The refinement maps
the step that sends Sign2 to `Release`, the step that writes the output to `Complete`,
the one that writes the error to `Abort`, and everything else to a stutter.

**ChillDKG_proofs**: every number of participants, threshold, group, hash, set of
faults and set of honest participants, with an honest or a faulty coordinator and with
crashes. It uses that a list of host keys without duplicates has the honest
participants at their own positions (`ListAssumption`), that nil is no number and no
error (`ChillAssumption`, `ErrorAssumption`), and, for blame only, that no honest
participant draws the secret 0 (`HashAssumption`: its commitment would be the identity,
and others would rightly refuse it). `DKGInv`: a participant in `step1` knows its
position (`Numbered`) and has signed nothing (`SignedOnce`); whatever it has signed is a
transcript from which it decrypted a share that fits the commitments (`SignedChecked`)
and is what it remembers (`Remembered`); every certificate anywhere has, for an honest
participant, its own signature or none (`CertsGenuine`); recovery data and outputs come
with a complete certificate (`Finalised`). A complete certificate then contains the one
transcript that each honest participant has signed (`SignedIsCertified`): two of them
are equal, and `Recover` repeats a check that has succeeded (`RecoverSucceeds`).
`DKGOwnShare` is the same fact about a single output. For blame, `BlameInv` adds that honest
participants send once and remember it (`SentOnce`), and that a coordinator that
follows the code relays it unchanged and the same to everybody (`Relayed`,
`HonestlyRun`), so that every check fails only on what a faulty participant made.

How many commitments a transcript has is a question of its own. Nothing in `DKGInv`
bounds it, and `DKGRecoverable` says that `Recover` succeeds for everybody or for
nobody, according to that number. A coordinator that follows the code makes t of them,
whatever it was sent (`AggregateLength`, part of `BlameInv`), so that whatever is
finalised is `Complete` (`HonestComplete`).

Up to here nothing is used about sums, polynomials or pads. `DKGUsableKey` does use the
arithmetic. `WellFormed` says that everything sent consists of scalars and points, since
hashes are scalars (`HashRange`), and that a commitment has one or more coefficients. So
the public shares of a transcript are the values of one exponent at the IDs, and
`PointsInterpolate` gives the group key from as many of them as there are commitments,
which is t if the coordinator follows the code (`HonestComplete`). It assumes
`N + 1 < MaxSize`: `threshold + 1` is computed in 16 bits and wraps for t = n = 65535
(`cmd/keygen` admits at most 100). `DKGTyped` needs the same facts, because an output
must not be nil (`OutputAssumption`).

**Group_proofs**: any Q modulo which every number but 0 has an inverse, and any group in
which multiples of the base point carry the arithmetic of the scalars over, one to one
(`GroupAssumption`, `GroupLaws`, both evaluated by TLC for the group of the runs). Sums
and products are folds over functions, in an order that nobody knows. The lemmas
first show that a fold of an operation that commutes does not depend on it (`TakesAny`),
so that a sum can be taken apart at any index. Horner's rule is a recursive function;
`IsHorners` describes its partial values. `Interpolate` is by induction on its steps
(`HornersInterp`): after k + 1 steps, any k + 1 values interpolate to the coefficient
added last. Interpolation is linear (`InterpLin`), that of a constant is the constant
(`InterpOne`), and the part of a step with a factor x vanishes (`InterpFactor`),
because a factor j - x takes j out of the set (`InterpDrop`) and the set without j still
has enough values for the step before. Points follow through logarithms (`ExponentLogs`). Induction is done
over sets: the numbers, or the subsets, for which a claim holds are shown to be all of
them (`NatInd`, `SubsetInd`), which avoids theorems with an operator as a parameter.

**KeygenSign_proofs**: every key that ChillDKG or a dealer makes, every group of signers,
offsets and nonces, where hashes are scalars and nil is no value that it stands in
for (`HashToScalar`, `NilAssumption`). Key generation inside `KeygenSign` is ChillDKG's
(`RunsDKG`), so the theorems about it carry over, and its coordinator follows the code
(`Coordinated`), so that t shares make the key. In the inductive invariant `SignInv`,
`IsKey` says that enough shares of the key interpolate to the secret of the group key,
and `Running` that there are nonces in terms of which every round of every signer and all
mail can be written down: `Round0` to `Round3` are the rounds after 0 to 3 passes, as
functions of the key, the shares held and the nonces (`Ctx`). Nobody is more than one
pass ahead (`LockStep`). One lemma for each pass (`SignFirst`, `SignSecond`,
`SignThird`) follows `PartyRoutine` through decoding, processing and generating. The properties
are then arithmetic. `OpensIff`: the check of a share, or of a signature, compares
one scalar, which gives `ShareCheckExact`, `RoastAgrees` and `StaleShareNamed`; if the
sum of the shares opens and the challenge is not 0, it cancels (`OnlyTheKeySigns`). For
`ImplementsSigning`, `ReadKeys` maps to `Gather`, the second pass of a signer to `Release`, the third to `Complete`,
a failing pass to `Abort`. `ExponentAgrees` compares evaluation by powers with
Horner's rule (`PowerSumEvaluate`) and assumes `N < MaxSize`, because the encoding of
an exponent counts coefficients in 16 bits (`party.Size` is a `uint16`).

### Only model-checked

All liveness: `Robust`, `Succeeds`, `EveryoneEnds`, `EveryoneSigns`, `AllKeyed`,
`EnoughSign`. Fairness and `ENABLED` are out of the prover's reach. (`DriverNeverFails` is
what `Succeeds` says without it.) The four violations are counterexamples and
need no proof. That the curve of the code is a group as `GroupLaws` describes it is
taken from the library it uses.

## Findings

1. `sign_fifo`: `State.HandleMessage` refuses every message of a sender whose
   message for the current round is stored (`pkg/state/state.go:110`), before it
   looks at the type. In a run of three honest parties p1 may have p2's Sign1 and
   not yet p3's when p2's Sign2 arrives. It is refused, not queued, and p1 never
   finishes. Messages that arrive before the first `ProcessAll` are refused in the
   same way, because `NewBaseState` fills the map with nil entries.
2. `sign_any`: with two parties and reordering, Sign2 is queued, Sign1 completes
   round 1, `ProcessAll` moves Sign2 to the received messages of round 2 and
   returns. Nothing calls it again.
3. `dkg_threshold`: `vssGenerate` makes t coefficients
   (`pkg/frost/chilldkg/vss.go:18`), so t shares determine the secret. The README
   says "degree `t`" and "at least `t+1` distinct shares", and the same t becomes
   `eddsa.Public.Threshold`, "the maximum number of parties that may be corrupted".
   `helpers.GenerateSecrets` uses degree `threshold`.
4. `schnorr`: `challenge` (`pkg/internal/zk/schnorr.go:88`) gives `h.Sum` a buffer of
   64 zero bytes, to which the digest is appended. `SetUniformBytes` gets 128 bytes
   and fails, the error is dropped, and the challenge is 0 for every statement. A
   proof is then accepted for any statement. The test only checks a proof against its own.
   Nothing in the repository calls the package.

Also noted, not as violations. No step of ChillDKG compares the number of commitments
with t (`pkg/frost/chilldkg/simplpedpop.go:172`), although a test of a separate
implementation in `experiments/proof1_threshold_test.go:278` says that a "commitment
length check should reject higher degree polynomial". A participant that sends a longer
commitment makes the coordinator panic (`simplpedpop.go:101`). A coordinator that does
not follow the code can append an identity: every share still fits, everybody signs and
finalises, and `Recover` then fails for everybody ("invalid recovery data length",
`recovery.go:102`), although the README says that `RecoveryData` "allows restoring DKG
output from a host key if shares are lost". It can also add a term and shift the
shares, and t shares no longer make the key. `Recoverable` and `UsableKey` say exactly
when these happen; with the coordinator of the repository they do not. The README says that at most `f + 1` sessions are needed
with `f` malicious signers: the bound of `SessionBound` does not depend on `f`.
`wrapError` (`pkg/state/state.go:64`) prints culprit and round in each other's
place. An answer that is delivered twice bans its honest sender. If commitments
are not broadcast, a faulty signer can make honest parties accuse each other, which
`BlameSound` excepts. A ChillDKG participant whose share does not fit gives up with
`ErrFaultyParticipantOrCoord` (`pkg/frost/chilldkg/simplpedpop.go:176`), which names
nobody, although the README says that ChillDKG "identifies faulty participants". A
ChillDKG session in which one participant keeps silent stops for everybody, without
a timeout. `Signer` of `pkg/roast` has no mutex; its only caller is
sequential. `Message.UnmarshalBinary` (`pkg/messages/messages.go:78`) drops the error
of a payload that cannot be decoded, and `ProcessMessage` then dereferences nil.
`NewRound` accepts fewer signers than the threshold needs: they release shares, and
fail with `ErrValidateSignature`, or name the holder of a wrong share
(`StaleShareNamed`). If all parties run `MessageRoutine` of the example, nobody sends
a first message; `main` then ignores the timeout's error and uses the signature, which
is nil (`example/main.go:86`). `cmd/keygen` says `0 < t < n < 100` and admits n = 100;
t = 0 is refused later, by `ParamsValidate`. `degree + 1`, `Threshold + 1` and the threshold
of a key file are 16-bit values that wrap at 65535; the widths are in `Keys` and
`Polynomial`, the case is too large to check. `Schnorr.UnmarshalBinary` and
`Signature.UnmarshalBinary` check for at least 64 bytes and then fail for more.

## Not modelled

Curve arithmetic, hashing and the byte formats of scalars and points (out of TLC's
reach, or without a question that a small instance could answer); the serialised
transcript and `ParamsID` of ChillDKG; files, printing, sockets and the shutdown of
the test transports; the `Equal`, `Size` and JSON methods that only tests use. An
`IDSlice` is a set: all callers sort it with `NewIDSlice` or build it in order.

`SafeToUse` takes the unmutexed reads and writes in program order, as they are
compiled on amd64. The Go memory model promises less for a data race; a weaker
order, in which `done` is seen before `output`, is not covered.

A message whose payload is nil is in `Unmarshal`, but no sender of the models makes
one: it would end the process.

`Agreement` compares transcripts field by field where the code signs their bytes, put
one after the other without lengths. All lists but the commitments have n entries of
fixed size, so the length of the bytes gives the number of commitments, and equal bytes
are equal transcripts. `Recover` may also read a transcript with the wrong number of
commitments without a complaint about its length, if the number is off by a multiple of
what one participant takes (five points); it then reads other keys and other signatures
from the same bytes, which do not verify, and `RecoverFrom` returns the same error.

Narrower than the code, without a bearing on the properties:

- In `SignState` only the other signers of a group send, and to their group. The checks
  of `HandleMessage` that drop a party's own message, one for somebody else or one of a
  party that does not sign (`pkg/state/state.go:95-106`) have nothing to drop. A party
  that has accepted all shares always gets a valid signature there; the failing `Verify`
  of `pkg/frost/sign/round2.go:46`, which names nobody, is in `FrostSign`.
- In `RoastCoordinator` and `ReputationCoordinator` the sender is one of the n signers.
  `HandleResponse` takes any ID and leaves the check to its caller; `cmd/roast` calls it
  with its own signers only.
- `FrostSign!Conclude` takes `ed25519.Verify` and `pk.Verify` of `cmd/signer` together:
  they check one equation, in two encodings. An error of `NewSignState`, which the
  command prints and then ignores, cannot occur with a key file that was read
  successfully.
- A negative t on the command line of `cmd/keygen`, which `party.Size` would turn into a
  large number, is not among the arguments of `KeygenSign`.

## Plan

1. `RoastSession`, `RoastCoordinator` and its proofs; `Roast`;
   `ReputationCoordinator`; `RoastDriver`; `SignState`. Done.
2. `Group`, `ChillDKG`, agreement and recovery proved. Done.
3. `Signing` and the two refinements, `WaitForError` and the example in `SignState`;
   `Keys`, `Polynomial`, `FrostSign`, `RoastCrypto`, `KeygenSign`; `Schnorr`. Done.
4. Proofs for `Roast`, `ReputationCoordinator`, `RoastDriver` and `SignState`, with
   their refinements, and of `DKGBlameSound` for `ChillDKG`. Done.
5. Proofs for `Group` and `KeygenSign`, and of the rest of `ChillDKG`. Done.
6. Left: nothing that the prover can reach. New code in `pkg/` should get an action in
   the module of its component and a step in that module's proof.
