---------------------------- MODULE MCAIConfig ----------------------------
(* Instances of AIConfig for TLC. *)
EXTENDS AIConfig

CONSTANTS m1, m2, r1, r2

Patch(name, model, prio, cred, makeDefault, test) ==
    [name |-> name, model |-> model, prio |-> prio, cred |-> cred,
     makeDefault |-> makeDefault, test |-> test]

McPatches == {Patch(1, m2, 0, FALSE, TRUE, FALSE),
              Patch(0, NoModel, 0, TRUE, FALSE, TRUE)}

McServed == {[name |-> 1, key |-> Slug(1), model |-> m1, secret |-> 1, prio |-> 10]}

Symmetric == Permutations(Requests)

\* A hand-made configuration: enabled, with a provider without a key that the
\* route names by its name, and one with a key that was never stored.
McHandmade ==
    {[enabled |-> TRUE,
      providers |-> <<[name |-> 1, key |-> NoKey, model |-> m1, secret |-> s, prio |-> 10]>>,
      route |-> <<Slug(1)>>] : s \in {0, 1}}
=============================================================================
