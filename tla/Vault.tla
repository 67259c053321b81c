-------------------------------- MODULE Vault ---------------------------------
(* The secrets vault (secrets.go) behind the ACL: a Retain moves the secrets *)
(* it finds into the vault, one upsert each, and keeps references to their   *)
(* names; operators put, reveal and delete secrets.                          *)
EXTENDS Access, Sequences

CONSTANTS
    Values, Digest,     \* secret values; Digest[v]: four bytes of the SHA-256 of v
    Labels,             \* the names that may stand before a value
    NoValue

\* The secretMatchers by their order: seven know a value by its form, the last two
\* (env, credential) by the label before it.
Matchers == 1..9
ByForm == 1..7

\* A text is its secrets in order, each with the first matcher that finds it there;
\* the words between are left out.
Secret == [matcher : Matchers, label : Labels, value : Values]
Texts == Seq(Secret)
Digests == {Digest[v] : v \in Values}
Names == (Labels \X {"label"}) \cup ((ByForm \X Digests) \X {"hash"})

ASSUME SecretAssumption ==
    /\ DOMAIN Digest = Values
    /\ \A o \in Operations :
        /\ o.kind = "retain" => o.text \in Texts
        /\ o.kind \in {"put", "delete"} => o.name \in Names
        /\ o.kind = "put" => o.value \in Values

VARIABLES
    vault,              \* the secrets table: per brain, a function from names to values
    work,               \* per caller: the secrets still to put, the content to store
    memories,           \* what was stored: [ns, text, content]
    placed, touched     \* history: what captures put; the names operators wrote

vaultVars == <<vault, work, memories, placed, touched>>
vars == <<require, acl, pc, cred, op, needs, who, open, had, requests, vaultVars>>

NoSecrets == [found |-> {}, content |-> <<>>]

InitVault ==
    /\ vault = [n \in Namespaces |-> [name \in Names |-> NoValue]]
    /\ work = [c \in Callers |-> NoSecrets]
    /\ memories = {} /\ placed = {} /\ touched = {}

\* The matchers go over the text one after the other: they come to place i no
\* later than to place j.
Earlier(text, i, j) ==
    text[i].matcher < text[j].matcher \/ (text[i].matcher = text[j].matcher /\ i <= j)
Places(text, value) == {i \in DOMAIN text : text[i].value = value}
First(text, value) ==
    CHOOSE i \in Places(text, value) : \A j \in Places(text, value) : Earlier(text, i, j)

\* Mutant: the kind alone, as if there was one key of a kind.
NameOfKind(text, value) ==
    LET at == text[First(text, value)] IN
    IF at.matcher \in ByForm THEN <<<<at.matcher, CHOOSE d \in Digests : TRUE>>, "hash">>
    ELSE <<at.label, "label">>

\* A value is named where it is first matched: by the kind of the matcher and its
\* own hash, or by the label.
NameOf(text, value) ==
    LET at == text[First(text, value)] IN
    IF at.matcher \in ByForm THEN <<<<at.matcher, Digest[value]>>, "hash">>
    ELSE <<at.label, "label">>

\* What is found, each value once; it is put in the order in which it was matched.
Detected(text) == {text[i].value : i \in DOMAIN text}
IsNext(text, found, v) == \A w \in found : Earlier(text, First(text, v), First(text, w))

\* The redacted text.
Redact(text, values) ==
    [i \in DOMAIN text |->
        IF text[i].value \in values THEN [ref |-> NameOf(text, text[i].value)] ELSE [raw |-> text[i].value]]

Raw(text) == Redact(text, {})

\* captureSecrets begins, and what it finds is known.
Extract(c) ==
    /\ Act(c, "retain")
    /\ work' = [work EXCEPT ![c] = [found |-> Detected(op[c].text), content |-> Raw(op[c].text)]]
    /\ pc' = [pc EXCEPT ![c] = IF Detected(op[c].text) = {} THEN "store" ELSE "capture"]
    /\ UNCHANGED <<require, acl, cred, op, needs, who, open, had, requests, vault, memories, placed, touched>>

\* PutSecret is an upsert.  After the last one the content is the redacted one.
Capture(c) ==
    \E v \in work[c].found :
        LET name == NameOf(op[c].text, v)
            rest == work[c].found \ {v}
        IN  /\ pc[c] = "capture" /\ IsNext(op[c].text, work[c].found, v)
            /\ vault' = [vault EXCEPT ![op[c].ns][name] = v]
            /\ placed' = placed \cup {<<op[c].ns, name, v>>}
            /\ work' = [work EXCEPT ![c] =
                    [found |-> rest, content |-> IF rest = {} THEN Redact(op[c].text, Values) ELSE @.content]]
            /\ pc' = [pc EXCEPT ![c] = IF rest = {} THEN "store" ELSE "capture"]
            /\ UNCHANGED <<require, acl, cred, op, needs, who, open, had, requests, memories, touched>>

\* Mutant: the failed one is skipped, the content redacted at the end all the same.
CaptureSkips(c) ==
    \E v \in work[c].found :
        LET rest == work[c].found \ {v}
        IN  /\ pc[c] = "capture"
            /\ work' = [work EXCEPT ![c] =
                    [found |-> rest, content |-> IF rest = {} THEN Redact(op[c].text, Values) ELSE @.content]]
            /\ pc' = [pc EXCEPT ![c] = IF rest = {} THEN "store" ELSE "capture"]
            /\ UNCHANGED <<require, acl, cred, op, needs, who, open, had, requests, vault, memories, placed, touched>>

\* A vault error: the content stays as it came, whatever was put before.
CaptureFails(c) ==
    /\ pc[c] = "capture"
    /\ work' = [work EXCEPT ![c] = [found |-> {}, content |-> Raw(op[c].text)]]
    /\ pc' = [pc EXCEPT ![c] = "store"]
    /\ UNCHANGED <<require, acl, cred, op, needs, who, open, had, requests, vault, memories, placed, touched>>

Leave(c) ==
    /\ Deny(c)
    /\ work' = [work EXCEPT ![c] = NoSecrets]

\* The rest of Retain: the row is inserted; or it is not, for the embedder or the
\* INSERT fails or a live memory says nearly the same.
StoreMemory(c) ==
    /\ pc[c] = "store"
    /\ memories' = memories \cup {[ns |-> op[c].ns, text |-> op[c].text, content |-> work[c].content]}
    /\ Leave(c)
    /\ UNCHANGED <<vault, placed, touched>>

StoreFails(c) ==
    /\ pc[c] = "store"
    /\ Leave(c)
    /\ UNCHANGED <<vault, memories, placed, touched>>

\* SecretPut writes under any name, SecretDelete removes the row.
PutSecret(c) ==
    /\ Act(c, "put")
    /\ vault' = [vault EXCEPT ![op[c].ns][op[c].name] = op[c].value]
    /\ touched' = touched \cup {<<op[c].ns, op[c].name>>}
    /\ Leave(c)
    /\ UNCHANGED <<memories, placed>>

DeleteSecret(c) ==
    /\ Act(c, "delete")
    /\ vault' = [vault EXCEPT ![op[c].ns][op[c].name] = NoValue]
    /\ touched' = touched \cup {<<op[c].ns, op[c].name>>}
    /\ Leave(c)
    /\ UNCHANGED <<memories, placed>>

\* RevealSecret decrypts and answers; nothing changes.
RevealSecret(c) ==
    /\ Act(c, "reveal")
    /\ Leave(c)
    /\ UNCHANGED <<vault, memories, placed, touched>>

Init == InitAccess /\ InitVault

Next ==
    \/ AccessNext /\ UNCHANGED vaultVars
    \/ \E c \in Callers :
        \/ Extract(c) \/ Capture(c) \/ CaptureFails(c) \/ StoreMemory(c) \/ StoreFails(c)
        \/ PutSecret(c) \/ DeleteSecret(c) \/ RevealSecret(c)

Spec == Init /\ [][Next]_vars

-----------------------------------------------------------------------------
TypeOK ==
    /\ AccessTyped
    /\ pc \in [Callers -> Phases \cup {"capture", "store"}]
    /\ vault \in [Namespaces -> [Names -> Values \cup {NoValue}]]
    /\ placed \subseteq Namespaces \X Names \X Values
    /\ touched \subseteq Namespaces \X Names
    /\ \A m \in memories : DOMAIN m.content = DOMAIN m.text

References(m) == {i \in DOMAIN m.content : "ref" \in DOMAIN m.content[i]}

\* A memory is stored as it came, or without any of the secrets found in it, and
\* what a reference replaced was put into the vault before: a vault error half-way
\* neither leaves some redacted nor drops a value (captureSecrets, "so nothing is
\* silently dropped").
ReferencesWereVaulted ==
    \A m \in memories :
        /\ References(m) \in {{}, DOMAIN m.text}
        /\ \A i \in References(m) : <<m.ns, m.content[i].ref, m.text[i].value>> \in placed

Shown(m, i) == vault[m.ns][m.content[i].ref]
Written(m, i) == <<m.ns, m.content[i].ref>> \in touched

\* A name by hash has 32 bits of it.  Unless an operator wrote that name, its
\* references show a value with the hash of the one they replaced, which a capture
\* put there: the one they replaced, as long as no other value found by the same
\* matcher has those bits (extractSecrets).
HashedNamesResolve ==
    \A m \in memories : \A i \in References(m) :
        m.content[i].ref[2] = "hash" /\ ~ Written(m, i) =>
            /\ <<m.ns, m.content[i].ref, Shown(m, i)>> \in placed
            /\ Digest[Shown(m, i)] = Digest[m.text[i].value]

\* Every reference shows what it replaced, by its label too (secrets.go: each value
\* moves into the vault, the content keeps a reference, "the raw value lives only
\* in the vault").
ReferencesResolve ==
    \A m \in memories : \A i \in References(m) : Written(m, i) \/ Shown(m, i) = m.text[i].value
=============================================================================
