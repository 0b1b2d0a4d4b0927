----------------------------- MODULE Negotiation -----------------------------
(***************************************************************************)
(* protocol/negotiation.go: each end picks, on its own, its first preference *)
(* among what the other offers, for the AEAD, the transport and the Noise   *)
(* pattern.  Two ends negotiate with each other's capabilities.             *)
(***************************************************************************)
EXTENDS Integers, Sequences, SequencesExt

CONSTANTS
    Values,             \* the suites, transports and patterns there are
    Lists, ShortLists   \* bound: preference lists, of AEADs and of the others

NegotiationAssumption ==
    "none" \notin Values /\ Lists \subseteq Seq(Values) /\ ShortLists \subseteq Seq(Values)

Fields == {"aead", "transport", "pattern"}

(* What an end may offer; DefaultCapabilities is <<"a", "b">> three times.  *)
Capabilities ==
    [aead : Lists, transport : ShortLists, pattern : ShortLists, version : {1, 2}]
DefaultCapabilities ==
    [aead |-> <<"a", "b">>, transport |-> <<"a", "b">>, pattern |-> <<"a", "b">>, version |-> 1]

VARIABLES ends, profiles   \* the two ends' capabilities and what each has picked
gvars == <<ends, profiles>>

Init == ends = <<>> /\ profiles = <<>>

(* Mutation: the remote preference wins.                                    *)
FirstCommonRemote(local, remote) ==
    LET common == {k \in DOMAIN remote : remote[k] \in ToSet(local)} IN
    IF common = {} THEN "none" ELSE remote[Min(common)]

FirstCommon(local, remote) ==
    LET common == {k \in DOMAIN local : local[k] \in ToSet(remote)} IN
    IF common = {} THEN "none" ELSE local[Min(common)]

Failure == [aead |-> "none", transport |-> "none", pattern |-> "none"]

NegotiateCapabilities(local, remote) ==
    LET picked == [aead |-> FirstCommon(local.aead, remote.aead),
                   transport |-> FirstCommon(local.transport, remote.transport),
                   pattern |-> FirstCommon(local.pattern, remote.pattern)]
    IN  IF local.version # remote.version \/ \E f \in Fields : picked[f] = "none"
        THEN Failure ELSE picked

Negotiate(a, b) ==
    /\ ends = <<>>
    /\ ends' = <<a, b>>
    /\ profiles' = <<NegotiateCapabilities(a, b), NegotiateCapabilities(b, a)>>

Next == \E a, b \in Capabilities : Negotiate(a, b)

----------------------------------------------------------------------------
Index(s, v) == Min({k \in DOMAIN s : s[k] = v})

(* The two ends fail or succeed together; each has picked what both offer    *)
(* and what it likes best of that; and they have picked the same wherever    *)
(* they rank what they share alike, as with the default capabilities.        *)
NegotiationAgrees ==
    ends # <<>> =>
        /\ profiles[1] = Failure <=> profiles[2] = Failure
        /\ \A i \in {1, 2}, f \in Fields : profiles[i] # Failure =>
              LET mine == ends[i][f]
                  shared == ToSet(mine) \cap ToSet(ends[3 - i][f])
              IN  /\ profiles[i][f] \in shared
                  /\ \A v \in shared : Index(mine, profiles[i][f]) <= Index(mine, v)
                  /\ (\A v, w \in shared : Index(mine, v) < Index(mine, w)
                                             => Index(ends[3 - i][f], v) < Index(ends[3 - i][f], w))
                        => profiles[1][f] = profiles[2][f]
        /\ ends = <<DefaultCapabilities, DefaultCapabilities>> => profiles[1] # Failure
=============================================================================
