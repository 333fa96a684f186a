---- MODULE MCVerifyDeploy ----
EXTENDS VerifyDeploy

Raw == [signerMode |-> "raw", keystorePath |-> FALSE, keystoreAccount |-> FALSE, rawKey |-> TRUE,
        expected |-> TRUE, local |-> "false", ownerKey |-> FALSE, portInUse |-> FALSE,
        extProxy |-> "up", normalProxy |-> "up", proxyMode |-> "", proxyKeystore |-> FALSE,
        proxyKey |-> TRUE, simulated |-> FALSE]
Keystore == [Raw EXCEPT !.signerMode = "keystore", !.keystoreAccount = TRUE, !.rawKey = FALSE]
\* One setting away from a usable environment, the signer in a keystore or not.
OneOff ==
  {Raw, [Raw EXCEPT !.expected = FALSE, !.portInUse = TRUE, !.local = "", !.simulated = TRUE],
   [Keystore EXCEPT !.proxyKey = FALSE, !.extProxy = "down", !.normalProxy = "unset", !.simulated = TRUE],
   [Keystore EXCEPT !.proxyMode = "keystore", !.proxyKeystore = TRUE, !.proxyKey = FALSE, !.extProxy = "unset"]}

NoFile == [exists |-> FALSE, id |-> Empty, sender |-> Empty]
AllFiles == {NoFile} \cup [exists : {TRUE}, id : {Empty, Malformed, 1, 2}, sender : {Empty, Malformed, 7}]

Ext(a, o, k) == [sender |-> a, owner |-> o, key |-> k]
Chain(m, h, b, n, e) == [manager |-> m, code |-> h, balance |-> b, minimum |-> 1, next |-> n, exts |-> e]
Registries ==
  {[i \in 1..0 |-> Ext(0, FALSE, FALSE)], [i \in {1} |-> Ext(7, TRUE, TRUE)]}
  \cup {[i \in {1, 2} |-> IF i = 1 THEN Ext(a, o, k) ELSE Ext(7, TRUE, TRUE)] :
          a \in {7, 8}, o \in BOOLEAN, k \in BOOLEAN}
Chains0 ==
  {Chain(3, TRUE, 1, IF DOMAIN e = {} THEN 0 ELSE 3, e) : e \in Registries}
  \cup {Chain(m, h, b, 3, [i \in {1} |-> Ext(7, TRUE, TRUE)]) : m \in {0, 3}, h \in BOOLEAN, b \in {1}}
  \cup {Chain(3, TRUE, 0, 3, [i \in {1} |-> Ext(7, TRUE, TRUE)])}

Quiet == [dial |-> FALSE, code |-> FALSE, funds |-> FALSE, chain |-> FALSE, next |-> FALSE,
          sender |-> FALSE, owner |-> FALSE, key |-> FALSE, scan |-> {}]
\* At most one kind of query fails in a run.
OneOutage == {Quiet, [Quiet EXCEPT !.scan = {1}]} \cup {[Quiet EXCEPT ![k] = TRUE] : k \in DOMAIN Quiet \ {"scan"}}
\* A run with --checks=R3 keeps that one result.
AllOrR3 == {{}, {"R3"}}
=============================================================================
