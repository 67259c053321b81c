------------------------------- MODULE MCVault --------------------------------
(* Small instances of Vault.                                                *)
EXTENDS Vault, TLC

CONSTANTS root, t1, t2, boss, a1, guest, n1, n2, key1, key2, key3, pass1, pass2, password, token, other

Login == [token |-> None, agent |-> None, login |-> TRUE]
Named == [token |-> None, agent |-> a1, login |-> TRUE]
Presented(t) == [token |-> t, agent |-> None, login |-> FALSE]
AllCredentials == {Login, Named, Presented(root), Presented(t1), Presented(t2)}

openai == 4
bearer == 7
env == 8
credential == 9
Found(matcher, label, value) == [matcher |-> matcher, label |-> label, value |-> value]

\* The first two keys have the same four bytes.
DigestOf == [v \in Values |-> IF v \in {key1, key2} THEN 1 ELSE 2]

\* One key; keys that collide, with one key and one password that stand at two
\* places, first where they are matched later; two services with a password each.
OneKey == <<Found(openai, token, key3)>>
Mixed == <<Found(credential, password, pass1), Found(openai, token, key2), Found(env, token, key3),
           Found(openai, token, key1), Found(env, other, pass1), Found(bearer, token, key3)>>
TwoPasswords == <<Found(env, password, pass1), Found(env, password, pass2)>>

Retain(text) == [kind |-> "retain", ns |-> n1, text |-> text]
VaultOperations ==
    {Retain(OneKey), Retain(Mixed),
     [kind |-> "put", ns |-> n1, name |-> <<<<openai, 2>>, "hash">>, value |-> key2],
     [kind |-> "delete", ns |-> n1, name |-> <<other, "label">>],
     [kind |-> "reveal", ns |-> n1]}
AccessOperations ==
    {[kind |-> "list", ns |-> n2],
     [kind |-> "create", agent |-> a1, admin |-> FALSE],
     [kind |-> "revoke", token |-> t1],
     [kind |-> "grant", agent |-> a1, ns |-> n1, rights |-> {"read"}],
     [kind |-> "share", agent |-> a1, ns |-> n2, rights |-> Rights],
     [kind |-> "revokeGrant", agent |-> a1, ns |-> n1],
     [kind |-> "session", ns |-> n1, write |-> TRUE],
     [kind |-> "session", ns |-> n1, write |-> FALSE]}

AllOperations == VaultOperations \cup AccessOperations
Retains == {Retain(OneKey), Retain(TwoPasswords)}

\* An admin, and an agent that reads both brains and may write the first.
Owners == (root :> boss) @@ (t1 :> a1) @@ (t2 :> None)
Admins == [t \in Tokens |-> t = root]
Granted ==
    {[a \in Agents |-> [n \in Namespaces |->
        IF a # a1 THEN {} ELSE IF n = n1 THEN first ELSE {"read"}]] : first \in {{"read"}, Rights}}

Symmetry == Permutations(Callers)
=============================================================================
