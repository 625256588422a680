--------------------------- MODULE TemplateIdentity ---------------------------
(***************************************************************************)
(* Fingerprints of templates (src/fingerprint.rs): a builder feeds framed  *)
(* bytes to SHA-256, finish_root makes the identity of a root of the       *)
(* digest, finish_step and derive compose it with that of the parent.  Two *)
(* callers build identities side by side; equal fingerprints must mean     *)
(* that both described the same template.                                  *)
(*                                                                         *)
(* A byte is a string, a length is one byte, and a digest is one byte that *)
(* spells what was hashed: SHA-256 is taken to have no collisions.         *)
(***************************************************************************)
EXTENDS Naturals, Sequences, TLC

CONSTANTS
    Caller,
    Domain, Label, Content,   \* byte strings given to new and add
    MaxAdds, MaxDepth         \* bounds: calls of add, and derive steps

VARIABLES
    builder,    \* per caller: the bytes fed, or Idle
    arguments,  \* per caller: what the builder was called with
    identity,   \* per caller: its newest TemplateIdentity
    lineage     \* per caller: the arguments behind identity, ancestors first

printsVars == <<builder, arguments, identity, lineage>>

Idle == <<"idle">>
NoFingerprint == <<"none">>
NoIdentity == [fingerprint |-> NoFingerprint, parent |-> NoFingerprint]

(***************************************************************************)
(* Mistakes the code could plausibly contain, each replacing the operator  *)
(* whose name it starts with.                                              *)
(***************************************************************************)
Frame_Unframed(bytes) == bytes

-----------------------------------------------------------------------------
Digest(bytes) == << ToString(bytes) >>
Frame(bytes) == << ToString(Len(bytes)) >> \o bytes

NewBuilder(domain) == Frame(<<"template-v1">>) \o Frame(domain)
AddTo(fed, label, content) == fed \o Frame(label) \o Frame(content)
DerivedFingerprint(parent, step) ==
    Digest(Frame(<<"derived-template-v1">>) \o Frame(parent) \o Frame(step))

PrintsInit ==
    /\ builder = [c \in Caller |-> Idle] /\ arguments = [c \in Caller |-> <<>>]
    /\ identity = [c \in Caller |-> NoIdentity] /\ lineage = [c \in Caller |-> <<>>]

New(c, domain) ==
    /\ builder[c] = Idle /\ Len(lineage[c]) <= MaxDepth
    /\ builder' = [builder EXCEPT ![c] = NewBuilder(domain)]
    /\ arguments' = [arguments EXCEPT ![c] = <<domain>>]
    /\ UNCHANGED <<identity, lineage>>

Add(c, label, content) ==
    /\ builder[c] # Idle /\ Len(arguments[c]) < 1 + 2 * MaxAdds
    /\ builder' = [builder EXCEPT ![c] = AddTo(@, label, content)]
    /\ arguments' = [arguments EXCEPT ![c] = @ \o <<label, content>>]
    /\ UNCHANGED <<identity, lineage>>

Finish(c, result) ==
    /\ builder[c] # Idle
    /\ builder' = [builder EXCEPT ![c] = Idle] /\ arguments' = [arguments EXCEPT ![c] = <<>>]
    /\ identity' = [identity EXCEPT ![c] = result]
    /\ lineage' = [lineage EXCEPT ![c] = Append(@, arguments[c])]

\* finish_root and PostgresHarness::template
FinishRoot(c) ==
    /\ identity[c] = NoIdentity
    /\ Finish(c, [fingerprint |-> Digest(builder[c]), parent |-> NoFingerprint])

\* finish_step and DatabaseTemplate::derive
FinishStep(c) ==
    /\ identity[c] # NoIdentity
    /\ Finish(c, [fingerprint |-> DerivedFingerprint(identity[c].fingerprint, Digest(builder[c])),
                  parent |-> identity[c].fingerprint])

PrintsNext ==
    \E c \in Caller :
        \/ \E domain \in Domain : New(c, domain)
        \/ \E label \in Label, content \in Content : Add(c, label, content)
        \/ FinishRoot(c) \/ FinishStep(c)

PrintsSpec == PrintsInit /\ [][PrintsNext]_printsVars

-----------------------------------------------------------------------------
\* Every fingerprint of two callers agrees exactly where everything they said
\* of the template agrees: the domain, each label and content, and the same of
\* every ancestor ("Changing a parent's inputs therefore changes its
\* descendants"); a root is never taken for a derived template.
FingerprintsFaithful ==
    \A c, d \in Caller :
        identity[c] # NoIdentity /\ identity[d] # NoIdentity =>
            /\ identity[c].fingerprint = identity[d].fingerprint <=> lineage[c] = lineage[d]
            /\ identity[c].fingerprint = identity[d].fingerprint =>
                   identity[c].parent = identity[d].parent

=============================================================================
