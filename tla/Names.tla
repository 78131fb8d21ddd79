-------------------------------- MODULE Names --------------------------------
(* Names the controllers derive: of managed resources (managedName,        *)
(* shortToken) and of the network object of a cluster (networkObjectName). *)
(* A string is a sequence of characters; lengths are parameters, because   *)
(* what can go wrong happens at the limit.                                 *)
EXTENDS Integers, Sequences, SequencesExt

CONSTANTS
    Letters,     \* lower-case letters and digits
    Lower,       \* the function from capitals to letters
    Limit,       \* the longest name, 63
    TokenLimit,  \* the longest token, 8
    Fallback,    \* "tcloud-network" and "tcloud-cluster-network"
    Suffix       \* "-network"

(* A DNS label.                                                            *)
Char == Letters \cup {"-"}
IsLabel(s) ==
    /\ s \in Seq(Char)
    /\ Len(s) \in 1..Limit
    /\ s[1] # "-" /\ s[Len(s)] # "-"
NoRunOfDashes(s) == \A i \in 1..(Len(s) - 1) : <<s[i], s[i + 1]>> # <<"-", "-">>

ASSUME NamesConstants ==
    /\ Char \subseteq STRING /\ "-" \notin Letters \cup DOMAIN Lower
    /\ Lower \in [DOMAIN Lower -> Letters] /\ DOMAIN Lower \cap Letters = {}
    /\ Limit \in Nat /\ TokenLimit \in Nat \ {0}
    /\ IsLabel(Fallback) /\ Len(Fallback) + 1 + TokenLimit <= Limit
    /\ Suffix \in Seq(Char) /\ Len(Suffix) > 1
    /\ Suffix[1] = "-" /\ Suffix[Len(Suffix)] # "-" /\ NoRunOfDashes(Suffix)

lower(c) == IF c \in DOMAIN Lower THEN Lower[c] ELSE c
ToLower(s) == [i \in DOMAIN s |-> lower(s[i])]
TrimRight(s) ==
    LET last == {i \in DOMAIN s : s[i] # "-"}
    IN  IF last = {} THEN <<>> ELSE SubSeq(s, 1, CHOOSE i \in last : \A j \in last : j <= i)
Trim(s) == Reverse(TrimRight(Reverse(TrimRight(s))))
Cut(s, n) == SubSeq(s, 1, n)

(* A definition named ...Mutant beside the one it alters is a mistake that *)
(* the properties are tested against; the specification does not use it.   *)

WithoutDashes(s) ==
    LET built[i \in 0..Len(s)] ==
          IF i = 0 THEN <<>>
          ELSE IF s[i] = "-" THEN built[i - 1] ELSE Append(built[i - 1], s[i])
    IN  built[Len(s)]
shortToken(uid) ==
    LET t == WithoutDashes(uid)
    IN  IF Len(t) > TokenLimit THEN Cut(t, TokenLimit) ELSE t

WithSuffixMutant(name, suffix) ==
    IF Len(name) + Len(suffix) > Limit
    THEN Cut(name \o suffix, Limit)
    ELSE name \o suffix
WithSuffix(name, suffix) ==
    IF Len(name) + Len(suffix) > Limit
    THEN TrimRight(Cut(name, Limit - Len(suffix))) \o suffix
    ELSE name \o suffix

managedName(base, token) ==
    LET low  == ToLower(base)
        name == Trim([i \in DOMAIN low |-> IF low[i] \in Letters THEN low[i] ELSE "-"])
    IN  WithSuffix(IF name = <<>> \/ Len(name) > Limit THEN Fallback ELSE name,
                   <<"-">> \o token)

(* Runs of other characters become one dash, none at the beginning.        *)
CollapseMutant(acc, c) == IF c \in Letters THEN Append(acc, c) ELSE acc
Collapse(acc, c) ==
    IF c \in Letters THEN Append(acc, c)
    ELSE IF acc = <<>> \/ Last(acc) = "-" THEN acc ELSE Append(acc, "-")

Collapsed(s) ==
    LET built[i \in 0..Len(s)] == IF i = 0 THEN <<>> ELSE Collapse(built[i - 1], s[i])
    IN  built[Len(s)]

networkObjectName(clusterName) ==
    LET runes == Collapsed(ToLower(clusterName \o Suffix))
        name  == IF Trim(runes) = <<>> THEN Fallback ELSE Trim(runes)
    IN  IF Len(name) > Limit THEN TrimRight(Cut(name, Limit)) ELSE name

-----------------------------------------------------------------------------
(* Whatever base name the spec gives, empty, too long or full of dashes,   *)
(* the name of a managed resource is a valid label that ends in the whole  *)
(* token, so that objects with different tokens never share a resource     *)
(* (managedName).                                                          *)
ManagedNameCarriesToken(base, uid) ==
    LET name == managedName(base, shortToken(uid)) IN
    IsLabel(name) /\ IsSuffix(<<"-">> \o shortToken(uid), name)

(* Cluster names that may share a namespace: valid labels.  Two of them    *)
(* share a network object only where the code loses information: a run of  *)
(* dashes, or a name cut at the limit (networkObjectName).                 *)
Preserved(s) == IsLabel(s) /\ NoRunOfDashes(s) /\ Len(s) + Len(Suffix) <= Limit
ObjectNamesDistinct(c1, c2) ==
    /\ IsLabel(networkObjectName(c1))
    /\ Preserved(c1) /\ Preserved(c2) /\ networkObjectName(c1) = networkObjectName(c2)
          => c1 = c2

=============================================================================
