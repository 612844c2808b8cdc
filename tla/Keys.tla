---------------------------------- MODULE Keys ----------------------------------
(***************************************************************************)
(* The keys that key generation hands to signing: pkg/eddsa/public.go.     *)
(***************************************************************************)
EXTENDS Group

CONSTANT None  \* nil, or an error in place of a value

MaxSize == 2 ^ 16  \* party.Size is a uint16

NewPublic(shares, threshold) ==
    IF (threshold + 1) % MaxSize > Cardinality(DOMAIN shares) THEN None
    ELSE [Threshold |-> threshold, Shares |-> shares,
          GroupKey |-> computeGroupKey(DOMAIN shares, shares)]

\* Public.UnmarshalJSON: the threshold is cut to 16 bits, and the group key of
\* the file must be the one that the shares determine.
UnmarshalPublic(file) ==
    LET public == NewPublic(file.Shares, file.Threshold % MaxSize)
    IN  IF public = None \/ public.GroupKey # file.GroupKey THEN None ELSE public
=============================================================================
