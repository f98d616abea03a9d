---------------------------- MODULE MCKeySource ----------------------------
(* Model-checking instance of KeySource.  Keys are the strings "e1", "e2"  *)
(* (operator-provided) and "g1".."g3" (generated); kids "a", "b", "dev"    *)
(* and "dev-0".."dev-2".                                                   *)
EXTENDS KeySource, TLC

MCDevKid == [t \in 0..2 |-> "dev-" \o ToString(t)]
MCGenKeys == <<"g1", "g2", "g3">>

NoExtra == [x \in {} |-> ""]
EnvUnset == [kid |-> "", pem |-> "", pubsOk |-> TRUE, pubs |-> NoExtra]
FsAbsent == [state |-> "absent", kid |-> "", pem |-> "", pubs |-> NoExtra]

\* Environments: unset; a valid active key with a retired key "b"; a
\* PUBLIC_KEYS entry that does not parse; a half-set environment.
MCEnvConfigs ==
    { EnvUnset,
      [kid |-> "a", pem |-> "e1", pubsOk |-> TRUE, pubs |-> ("b" :> "e2")],
      [kid |-> "a", pem |-> "e1", pubsOk |-> TRUE, pubs |-> ("b" :> "bad")],
      [kid |-> "a", pem |-> "", pubsOk |-> TRUE, pubs |-> NoExtra] }

\* /vault/auth: absent, a valid keys.json, an unreadable one, one missing
\* its private key.
MCFsConfigs ==
    { FsAbsent,
      [state |-> "file", kid |-> "b", pem |-> "e2", pubs |-> ("a" :> "e1")],
      [state |-> "unreadable", kid |-> "", pem |-> "", pubs |-> NoExtra],
      [state |-> "file", kid |-> "b", pem |-> "", pubs |-> NoExtra] }

\* .runtime/authkit: empty, or a corrupt private.pem beside an old kid file.
MCDiskInits ==
    { [pem |-> "none", kid |-> "none"], [pem |-> "bad", kid |-> "dev-old"] }

\* Bound: at most two generations, so GenKeys is never exhausted.
GenBound == gens < Len(MCGenKeys)
=============================================================================
