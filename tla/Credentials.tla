----------------------------- MODULE Credentials -----------------------------
(* The credentials read from a cloud credential Secret                     *)
(* (internal/cloud/credentials.go) and the options the cloud client is     *)
(* opened with (authOptions, endpointAvailability in tcloud.go).           *)
EXTENDS SequencesExt

(* " " stands for white space.                                             *)
TrimSpace(v) == IF v = " " THEN "" ELSE v
firstNonEmpty(values) ==
    LET i == SelectInSeq(values, LAMBDA v : v # "")
    IN  IF i = 0 THEN "" ELSE values[i]

Rejected == [accepted |-> FALSE]

(* A definition named ...Mutant beside the one it alters is a mistake that *)
(* the properties are tested against; the specification does not use it.   *)

AuthMethod(s) ==
    IF s.authMethod # "" THEN s.authMethod
    ELSE IF TrimSpace(s.accessKey) # "" \/ s.secretKey # "" THEN "aksk" ELSE "password"

MethodCompleteMutant(m, s) == m \in {"password", "aksk"}
MethodComplete(m, s) ==
    CASE m = "password" -> TrimSpace(s.username) # "" /\ s.password # ""
      [] m = "aksk"     -> TrimSpace(s.accessKey) # "" /\ s.secretKey # ""
      [] OTHER          -> FALSE

(* The region of the spec overrides the one of the Secret.                 *)
RegionMutant(s, f) == firstNonEmpty(<<s.region, f.region>>)
Region(s, f) == firstNonEmpty(<<f.region, s.region>>)

(* f: the region, project and endpoint type of the network's spec.         *)
CredentialsFromSecret(s, f) ==
    LET method  == AuthMethod(s)
        project == firstNonEmpty(<<f.project, s.projectName>>)
        region  == Region(s, f)
    IN  IF \/ s.authUrl = "" \/ region = ""
           \/ ~MethodComplete(method, s)
           \/ method = "password" /\ s.domainName = "" /\ s.domainId = ""
           \/ project = "" /\ s.projectId = ""
        THEN Rejected
        ELSE [accepted |-> TRUE, method |-> method, authUrl |-> s.authUrl,
              username |-> TrimSpace(s.username), password |-> s.password,
              accessKey |-> TrimSpace(s.accessKey), secretKey |-> s.secretKey,
              domainName |-> s.domainName, domainId |-> s.domainId,
              projectName |-> project, projectId |-> s.projectId, region |-> region,
              endpointType |-> firstNonEmpty(<<f.endpointType, s.endpointType, "public">>)]

authOptions(c) ==
    [endpoint |-> c.authUrl,
     identity |-> IF c.method = "aksk" THEN <<c.accessKey, c.secretKey>>
                                       ELSE <<c.username, c.password>>,
     domain   |-> <<c.domainName, c.domainId>>,
     project  |-> <<c.projectName, c.projectId>>]

endpointAvailability(t) ==
    CASE t \in {"internal", "internalurl"} -> "internal"
      [] t \in {"admin", "adminurl"}       -> "admin"
      [] OTHER                             -> "public"

-----------------------------------------------------------------------------
(* Accepted credentials open a client: the options authOptions builds have *)
(* an identity of one kind, complete, a project, and for a user's password *)
(* a domain; and what the network's spec says goes before the Secret       *)
(* (CredentialsFromSecret).                                                *)
AcceptedIsUsable(s, f, c) ==
    c.accepted =>
        LET opt == authOptions(c) IN
        /\ opt.endpoint # ""
        /\ "" \notin {opt.identity[1], opt.identity[2]}
        /\ opt.project # <<"", "">>
        /\ c.method = "password" => opt.domain # <<"", "">>
        /\ f.project # "" => opt.project[1] = f.project
        /\ c.region # ""
        /\ c.region = IF f.region # "" THEN f.region ELSE s.region
        /\ f.endpointType # "" =>
              endpointAvailability(c.endpointType) = endpointAvailability(f.endpointType)

=============================================================================
