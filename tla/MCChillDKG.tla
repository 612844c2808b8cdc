------------------------------ MODULE MCChillDKG ------------------------------
(***************************************************************************)
(* Small key generations: three participants, a group of order 5.          *)
(***************************************************************************)
EXTENDS ChillDKG

MCHostSeckeys == [p \in Participants |-> p + 1]

MCHostPubkeys == [p \in Participants |-> ScalarBaseMult(p + 1)]

\* The right list of host keys.
MCHostLists == {MCHostPubkeys}

\* Shares that are right, or wrong by d for one participant.
Wrong(q, d) == [kind |-> "shares", err |-> [p \in Participants |-> IF p = q THEN d ELSE 0]]

\* A 1 and a 4 make up for each other.
MCFaults == {Wrong(0, 0), Wrong(1, 1), Wrong(1, 4)}
            \cup [kind : {"degree"}, err : Degrees]
            \cup [kind : {"identity", "pop"}, err : {None}]

\* A hash without collisions that matter; coefficients and nonces are not 0.
MCHash(tag, data) ==
    CASE tag = "vss coeffs" ->
             1 + ((data[1][1] * 3 + data[1][2] + 2 * data[2]) % (Q - 1))
      [] tag = "encpedpop secnonce" -> 1 + ((data[1] + 2 * data[2]) % (Q - 1))
      [] tag = "encpedpop ecdh" ->
             (data[1] + 2 * data[2] + 3 * data[3] + data[4][1] + data[4][2].Threshold) % Q
      [] tag = "encaps_multi self_pad" ->
             (data[1] + 2 * data[2] + data[3][1] + data[3][2].Threshold) % Q
=============================================================================
