----------------------------- MODULE MCKeygenSign -----------------------------
(***************************************************************************)
(* Three parties, a group of order 5.                                      *)
(***************************************************************************)
EXTENDS KeygenSign

MCHostSeckeys == [p \in Participants |-> p + 1]

MCHostPubkeys == [p \in Participants |-> ScalarBaseMult(p + 1)]

\* The right list of host keys, one with a key twice, and one with a key that
\* nobody has.
MCHostLists == {MCHostPubkeys, [MCHostPubkeys EXCEPT ![2] = MCHostPubkeys[1]],
                [MCHostPubkeys EXCEPT ![2] = ScalarBaseMult(4)]}

\* A hash without collisions that matter; coefficients and nonces are not 0.
MCHash(tag, data) ==
    CASE tag = "vss coeffs" ->
             1 + ((data[1][1] * 3 + data[1][2] + 2 * data[2]) % (Q - 1))
      [] tag = "encpedpop secnonce" -> 1 + ((data[1] + 2 * data[2]) % (Q - 1))
      [] tag = "encpedpop ecdh" ->
             (data[1] + 2 * data[2] + 3 * data[3] + data[4][1] + data[4][2].Threshold) % Q
      [] tag = "encaps_multi self_pad" ->
             (data[1] + 2 * data[2] + data[3][1] + data[3][2].Threshold) % Q

MCGroups == {{1}, {1, 3}, {1, 2, 3}}

\* All shares right, one wrong, and two wrong ones that make up for each other
\* if all three sign.
MCOffsets == {<<0, 0, 0>>, <<1, 0, 0>>, <<1, 1, 0>>}

MCNonces == {<<1, 2>>, <<3, 1>>}

\* Binding factors and challenges take all values, 0 included.
MCSha512(use, data) ==
    CASE use = "rho" ->
             (data[1] + SumScalars(data[3]) + 3 * SumScalars(data[4]) + 1) % Q
      [] use = "challenge" -> (data[1] + 2 * data[2]) % Q
=============================================================================
