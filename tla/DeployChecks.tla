---- MODULE DeployChecks ----
(***************************************************************************)
(* The checks of src/packages/fcc-extension/tools/pkg/validate as          *)
(* operators: each yields the set of results it adds to the report, from   *)
(* the settings s of the environment, the file f it parses, the chain c it *)
(* queries and the queries q that fail.                                    *)
(***************************************************************************)
EXTENDS Integers, FiniteSets

\* Values of extension.env and addresses: naturals, or one of these.
Empty == -1
Malformed == -2
WellFormed(v) == v >= 0
ZeroAddress == 0

Result(id, status) == [id |-> id, status |-> status]
Passes(id, ok) == {Result(id, IF ok THEN "PASS" ELSE "FAIL")}
Warns(id, ok) == {Result(id, IF ok THEN "PASS" ELSE "WARN")}
Skips(id) == {Result(id, "SKIP")}

Failures(report) == {r \in report : r.status = "FAIL"}
HasFailures(report) == Failures(report) # {}
Filtered(report, ids) == IF ids = {} THEN report ELSE {r \in report : r.id \in ids}

-----------------------------------------------------------------------------
\* The signer: an empty mode means keystore, and nothing stands in for a key.
Mode(s) == IF s.signerMode = "" THEN "keystore" ELSE s.signerMode
KeyFound(s) ==
  CASE Mode(s) = "keystore" -> s.keystorePath \/ s.keystoreAccount
    [] Mode(s) = "raw" -> s.rawKey
    [] OTHER -> FALSE
Loads(s) == KeyFound(s) /\ s.expected

\* D5: the source the report names, with "dev" for the Hardhat key.
IsLocal(s) == s.local \in {"true", ""}
SourceNamed(s) ==
  IF s.signerMode = "keystore" \/ (s.signerMode = "" /\ s.keystoreAccount) THEN "keystore"
  ELSE IF s.rawKey THEN "raw" ELSE "dev"
KeySource(s) == Warns("D5", SourceNamed(s) # "dev" \/ IsLocal(s))

\* D7.
EnvFormat(f) ==
  IF ~f.exists THEN Skips("D7_file")
  ELSE Passes("D7_sender", WellFormed(f.sender)) \cup Passes("D7_id", WellFormed(f.id))

\* D1, D3, D5, D6: the manager address, its code, the deployer's balance, the chain.
HasCode(c, q) == ~q.code /\ c.code
MoreThanMinimum(c, q) == ~q.funds /\ c.balance > c.minimum
HasFunds(c, q) == ~q.funds /\ c.balance >= c.minimum
DeployStep(s, path, f, c, q) ==
  Passes("D3", c.manager # ZeroAddress)
  \cup (IF c.manager = ZeroAddress THEN {} ELSE Passes("D1", HasCode(c, q)))
  \cup KeySource(s)
  \cup Passes("D5_funds", HasFunds(c, q))
  \cup Passes("D6", ~q.chain)
  \cup (IF path THEN EnvFormat(f) ELSE {})

-----------------------------------------------------------------------------
\* parseExtensionEnv: a missing file reads as two empty values.
Id(f) == IF f.exists THEN f.id ELSE Empty
Sender(f) == IF f.exists THEN f.sender ELSE Empty

SenderOf(c, i) == IF i \in DOMAIN c.exts THEN c.exts[i].sender ELSE ZeroAddress
RegisteredId(c, i) == i \in DOMAIN c.exts
Allowed(c, i) == i \in DOMAIN c.exts /\ c.exts[i].owner
KeyType(c, i) == i \in DOMAIN c.exts /\ c.exts[i].key

NextId(c, q) ==
  {Result("R1", IF q.next THEN "FAIL" ELSE IF c.next = 0 THEN "WARN" ELSE "PASS")}

\* R7: a query that fails is left out of the scan.
Matching(f, c, q) == {i \in 0..(c.next - 1) \ q.scan : SenderOf(c, i) = Sender(f)}
OneOther(f, c, q) == Warns("R7", Cardinality(Matching(f, c, q)) <= 2)
Unique(f, c, q) == Warns("R7", Cardinality(Matching(f, c, q)) <= 1)

OwnerAllowed(f, c, q) == Passes("R3", ~q.owner /\ Allowed(c, Id(f)))
KeySupported(f, c, q) == Passes("R4", ~q.key /\ KeyType(c, Id(f)))
RegisterStep(path, f, c, q) ==
  IF ~path \/ (Id(f) = Empty /\ Sender(f) = Empty) THEN Skips("R1_R7")
  ELSE IF ~WellFormed(Id(f)) THEN NextId(c, q) \cup Passes("R2_format", FALSE)
  ELSE NextId(c, q)
    \cup (IF WellFormed(Sender(f)) THEN Passes("R2", ~q.sender /\ SenderOf(c, Id(f)) = Sender(f)) ELSE {})
    \cup OwnerAllowed(f, c, q) \cup KeySupported(f, c, q)
    \cup (IF ~q.next /\ c.next > 0 /\ WellFormed(Sender(f)) THEN Unique(f, c, q) ELSE {})

-----------------------------------------------------------------------------
\* The later steps read the environment and two proxies: "unset", "up", "down".
Reachable(id, url) == IF url = "unset" THEN Skips(id) ELSE Warns(id, url = "up")

IdServices(path, f) == IF ~path THEN Skips("S2") ELSE Passes("S2", WellFormed(Id(f)))
ProxySigner(s) ==
  Warns("S10", IsLocal(s) \/ (s.proxyMode = "keystore" /\ s.proxyKeystore) \/ s.local # "false" \/ s.proxyKey)
ServicesStep(s, path, f) ==
  IdServices(path, f) \cup Warns("S5", ~s.portInUse) \cup Passes("S7", TRUE)
  \cup Reachable("S9", s.extProxy) \cup ProxySigner(s)

AnyVersionId(path, f) == IF ~path \/ ~f.exists THEN Skips("V4") ELSE Passes("V4", Id(f) # Empty)
IdVersion(path, f) == IF ~path \/ ~f.exists THEN Skips("V4") ELSE Passes("V4", WellFormed(Id(f)))
OwnerKey(s) == Warns("V2", s.signerMode = "keystore" \/ s.ownerKey \/ s.rawKey \/ IsLocal(s))
VersionStep(s, path, f) == OwnerKey(s) \cup IdVersion(path, f) \cup Reachable("V6", s.extProxy)

MachineStep(s) ==
  Warns("T1", ~(s.simulated /\ s.local = "false"))
  \cup Reachable("T5", s.normalProxy) \cup Reachable("T10", s.extProxy)

SenderTest(path, f) == IF ~path \/ ~f.exists THEN Skips("E1") ELSE Passes("E1", WellFormed(Sender(f)))
TestStep(s, path, f) == SenderTest(path, f) \cup Reachable("E3", s.extProxy) \cup Passes("E6", TRUE)
=============================================================================
