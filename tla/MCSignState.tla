------------------------------ MODULE MCSignState ------------------------------
(***************************************************************************)
(* Small runs of SignState.                                                *)
(***************************************************************************)
EXTENDS SignState, TLC

\* Honest parties are alike.  (Safety runs only.)
Symmetry == Permutations(Honest)

\* Reliable channels that feed the tests' Handler, and no timeout.
Reliable(order) ==
    [signers |-> Parties, order |-> order, lossy |-> FALSE, timeout |-> FALSE,
     loop |-> "Handler"]

MCReordering == {Reliable("any")}

MCFifo == {Reliable("fifo")}

MCTimeout == {[Reliable("any") EXCEPT !.timeout = TRUE]}

\* All sign without loss and timeout; with both, two of them, or all in the
\* loop of the example.
MCLive ==
    LET unreliable == [Reliable("any") EXCEPT !.lossy = TRUE, !.timeout = TRUE]
    IN  {Reliable("causal"), [unreliable EXCEPT !.loop = "MessageRoutine"]}
        \cup {[unreliable EXCEPT !.signers = Parties \ {p}] : p \in Parties \ Waiters}
=============================================================================
