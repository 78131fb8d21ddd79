----------------------------- MODULE MCFunctions -----------------------------
(* The calls of PureFunctions that TLC makes.                              *)
EXTENDS PureFunctions

CONSTANTS
    MaxBase,      \* bound: length of a base name
    MaxCluster    \* bound: length of a cluster name

Strings(S, n) == UNION {[1..k -> S] : k \in 0..n}

(* Secrets: no Secret, one that cannot be read, and archives of at most    *)
(* two entries.                                                            *)
StateOf(d, v, w, g) ==
    [driver |-> d, vpc |-> [value |-> v, managed |-> w],
     subnet |-> [value |-> v, managed |-> w], sg |-> g]
States == {StateOf("opentelekomcloud", "id1", TRUE, "id1"),
           StateOf("opentelekomcloud", "id1", FALSE, "id1"),
           StateOf("opentelekomcloud", "", TRUE, "id2"),
           StateOf("opentelekomcloud", "id1", TRUE, ""),
           StateOf("otherdriver", "id1", TRUE, "id1"),
           [StateOf("opentelekomcloud", "id2", TRUE, "id2") EXCEPT !.subnet.managed = FALSE],
           StateOf("opentelekomcloud", "id2", TRUE, "id2")}
Entry(file, parses, st) == [file |-> file, parses |-> parses, state |-> st]
Entries == {Entry("other", FALSE, NoState), Entry("broken", FALSE, NoState),
            Entry("config.json", FALSE, NoState)}
             \cup {Entry("config.json", TRUE, st) : st \in States}
Data(z, es)  == [kind |-> "data", gzip |-> z, entries |-> es]
NoSecret     == [kind |-> "missing", gzip |-> FALSE, entries |-> <<>>]
Unreadable   == [kind |-> "unreadable", gzip |-> FALSE, entries |-> <<>>]
Archives     == {Data(TRUE, es) : es \in Strings(Entries, 2)}
SomeSecrets  == {NoSecret, Unreadable, Data(FALSE, <<>>)}
                  \cup {Data(TRUE, <<Entry("config.json", TRUE, st)>>) : st \in
                          {StateOf("opentelekomcloud", i, TRUE, i) : i \in {"id1", "id2"}}}

Machines(S, n) ==
    {[i \in 1..n |-> [name |-> f[i], created |-> t[i], deleting |-> d[i], secret |-> s[i]]] :
        f \in {g \in [1..n -> 1..n] : \A i, j \in 1..n : g[i] = g[j] => i = j},
        t \in [1..n -> 1..2], d \in [1..n -> BOOLEAN], s \in [1..n -> S]}
SomeMachineLists == {<<>>} \cup Machines(Archives \cup SomeSecrets, 1) \cup Machines(SomeSecrets, 3)

SomeBases == Strings({"a", "B", "-", "."}, MaxBase)
SomeUIDs == {<<"a", "-", "b">>, <<"b", "x", "-", "a">>}
SomeClusterNames == {s \in Strings({"a", "b", "-"}, MaxCluster) : s # <<>> /\ s[1] # "-" /\ s[Len(s)] # "-"}

CredentialSecrets ==
    [authUrl : {"", "url"}, authMethod : {"", "password", "aksk", "token"},
     username : {"", " ", "user"}, password : {"", " "}, accessKey : {"", " ", "key"},
     secretKey : {"", "secret"}, domainName : {"", "domain"}, domainId : {"", "did"},
     projectName : {"", "project"}, projectId : {"", "id"}, region : {"", "eu"},
     endpointType : {"internal"}]
SomeFallbacks == [region : {"", "de"}, project : {"", "own"}, endpointType : {"", "admin"}]

LettersValue  == {"a", "b", "n", "x"}
LowerValue    == [c \in {"A", "B"} |-> IF c = "A" THEN "a" ELSE "b"]
FallbackValue == <<"x", "-", "n">>
SuffixValue   == <<"-", "n">>
=============================================================================
