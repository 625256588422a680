--------------------------- MODULE ResourceIdentity ---------------------------
(***************************************************************************)
(* How a harness recognises a database as its own: the name it gives       *)
(* (src/name.rs), the comment it writes (src/metadata.rs) and what a stale *)
(* sweep makes of both (src/harness.rs, classify_cleanup_record).          *)
(*                                                                         *)
(* Text is a sequence of symbols.  "_" and the hexadecimal digits matter,  *)
(* for they decide where a name ends; the words "pgh", "test" and          *)
(* "template" are symbols of their own.  The advisory locks, which decide  *)
(* when a candidate may be dropped, are the subject of                     *)
(* TemplateCoordination: here every lock is free.                          *)
(***************************************************************************)
EXTENDS Integers, Sequences, FiniteSets, SequencesExt

CONSTANTS
    Project,        \* the projects that share the server, as text
    TestSuffix,     \* suffixes of test databases: TestLen hexadecimal digits
    Fingerprint,    \* fingerprints of templates
    Parent,         \* those among them that are derived from
    ShortHex,       \* what short_hex keeps of each fingerprint
    Key,            \* advisory lock keys, as they are printed
    ForeignNames,   \* names of databases no harness made
    Digits,         \* the hexadecimal digits among the symbols
    TestLen, TemplateLen, MaxProjectLen,
    MaxTime, StaleAfter,
    MaxDatabases, MaxEdits   \* bounds

VARIABLES
    catalog,    \* pg_database: the comment of every existing database
    made,       \* what each database really is: the metadata at its creation
    dropped,    \* what the sweeps dropped: [by, text, comment, at]
    now, edits

namesVars == <<catalog, made, dropped, now, edits>>

None == [kind |-> "none"]
Foreign == [kind |-> "foreign"]
NoParent == "no parent"

(***************************************************************************)
(* Mistakes the code could plausibly contain, each replacing the operator  *)
(* whose name it starts with.                                              *)
(***************************************************************************)
ValidHexSuffix_AnyText(suffix, len) == Len(suffix) >= len
OnlyKeys_AtLeast(fields, keys) == keys \subseteq DOMAIN fields
MatchesName_KindOnly(metadata, name) == metadata.kind = name.kind

-----------------------------------------------------------------------------
(* Names *)

\* The symbols text is made of, the words of a name among them.
Symbol == STRING \cup {"pgh", "_", "test", "template", "alt"}

NamePrefix(project, kind) == <<"pgh", "_">> \o project \o <<"_", kind, "_">>
TestName(project, suffix) == NamePrefix(project, "test") \o suffix
TemplateName(project, fingerprint) ==
    NamePrefix(project, "template") \o ShortHex[fingerprint]

ValidHexSuffix(suffix, len) == Len(suffix) = len /\ Range(suffix) \subseteq Digits

\* ProjectName::new
ValidProject(text) ==
    /\ Len(text) \in 1..MaxProjectLen
    /\ Head(text) \notin {"_", "7"}
    /\ "alt" \notin Range(text)

\* DatabaseName::from_existing: a name with the prefix of a test is no
\* template's, even where its suffix is not valid.
FromExisting(project, text) ==
    LET After(kind) == SubSeq(text, Len(NamePrefix(project, kind)) + 1, Len(text))
        Prefixed(kind) == IsPrefix(NamePrefix(project, kind), text)
    IN  IF Prefixed("test")
        THEN IF ValidHexSuffix(After("test"), TestLen)
             THEN [text |-> text, kind |-> "test"] ELSE None
        ELSE IF Prefixed("template") /\ ValidHexSuffix(After("template"), TemplateLen)
             THEN [text |-> text, kind |-> "template"] ELSE None

-----------------------------------------------------------------------------
(* ResourceMetadata: a comment is the prefix and a sequence of key=value   *)
(* parts, or any other text.                                               *)

Times == 0..MaxTime
\* Numbers and fingerprints are read in any spelling that str::parse and
\* from_hex accept (a sign, leading zeros, capital digits): "alt" stands for it.
Reads(text, values) == \E v \in values : text \in {<<v>>, <<v, "alt">>}
PrintedTimes == {ToString(n) : n \in Times}
TimeOf(text) == CHOOSE n \in Times : ToString(n) = text[1]

Tests == [kind : {"test"}, project : Project, lock : Key, created : Times]
Templates == [kind : {"template"}, project : Project, lock : Key, created : Times,
              fingerprint : Fingerprint, parent : Fingerprint \cup {NoParent},
              state : {"initializing", "ready"}]

EncodeParent(metadata) ==
    IF metadata.parent = NoParent THEN <<>> ELSE << <<"parent", <<metadata.parent>> >> >>

Encode(metadata) ==
    << <<"kind", <<metadata.kind>> >>, <<"project", metadata.project>> >>
    \o (IF metadata.kind = "test"
        THEN << <<"owner", <<metadata.lock>> >> >>
        ELSE << <<"lock", <<metadata.lock>> >>, <<"fingerprint", <<metadata.fingerprint>> >> >>
             \o EncodeParent(metadata)
             \o << <<"state", <<metadata.state>> >> >>)
    \o << <<"created", <<ToString(metadata.created)>> >> >>

\* A part without "=" is <<junk>>; HashMap::insert refuses a second value.
DistinctKeys(parts) ==
    \A i, j \in DOMAIN parts : parts[i][1] = parts[j][1] => i = j
Fields(parts) ==
    [key \in {parts[i][1] : i \in DOMAIN parts} |->
        parts[SelectLastInSeq(parts, LAMBDA part : part[1] = key)][2]]

\* What is left of the map once the fields are removed: nothing.
OnlyKeys(fields, keys) == DOMAIN fields = keys

ParseTest(fields) ==
    IF /\ OnlyKeys(fields, {"kind", "project", "owner", "created"})
       /\ ValidProject(fields["project"])
       /\ Reads(fields["owner"], Key) /\ Reads(fields["created"], PrintedTimes)
    THEN [kind |-> "test", project |-> fields["project"], lock |-> fields["owner"][1],
          created |-> TimeOf(fields["created"])]
    ELSE None

ParseTemplate(fields) ==
    LET required == {"kind", "project", "lock", "fingerprint", "state", "created"}
        parent == IF "parent" \in DOMAIN fields THEN fields["parent"] ELSE <<NoParent>>
    IN  IF /\ OnlyKeys(fields, required) \/ OnlyKeys(fields, required \cup {"parent"})
           /\ ValidProject(fields["project"])
           /\ Reads(fields["lock"], Key) /\ Reads(fields["created"], PrintedTimes)
           /\ Reads(fields["fingerprint"], Fingerprint)
           /\ "parent" \in DOMAIN fields => Reads(parent, Fingerprint)
           /\ fields["state"] \in {<<"initializing">>, <<"ready">>}
        THEN [kind |-> "template", project |-> fields["project"], lock |-> fields["lock"][1],
              created |-> TimeOf(fields["created"]),
              fingerprint |-> fields["fingerprint"][1], parent |-> parent[1],
              state |-> fields["state"][1]]
        ELSE None

Parse(comment) ==
    LET fields == Fields(comment.parts)
    IN  IF \/ ~comment.prefix
           \/ \E i \in DOMAIN comment.parts : Len(comment.parts[i]) = 1
           \/ ~DistinctKeys(comment.parts)
           \/ "kind" \notin DOMAIN fields
        THEN None
        ELSE CASE fields["kind"] = <<"test">> -> ParseTest(fields)
               [] fields["kind"] = <<"template">> -> ParseTemplate(fields)
               [] OTHER -> None

-----------------------------------------------------------------------------
\* A name is one that a harness could have given.
NameOf(text, project) ==
    \/ \E suffix \in [1..TestLen -> Digits] : text = NamePrefix(project, "test") \o suffix
    \/ \E suffix \in [1..TemplateLen -> Digits] : text = NamePrefix(project, "template") \o suffix

\* What the constants stand for.  Distinct times are printed distinctly, and no
\* printed value looks like the mark of another spelling; the names of strangers
\* are not of the form of a harness's own.
IdentityAssumption ==
    /\ TestLen \in Nat /\ TemplateLen \in Nat /\ TestLen # TemplateLen
    /\ Digits \subseteq Symbol /\ "_" \notin Digits
    /\ TestSuffix \subseteq [1..TestLen -> Digits]
    /\ ShortHex \in [Fingerprint -> [1..TemplateLen -> Digits]]
    /\ Parent \subseteq Fingerprint /\ NoParent \notin Fingerprint
    /\ Project \subseteq Seq(Symbol) /\ \A project \in Project : ValidProject(project)
    /\ ForeignNames \subseteq Seq(Symbol)
    /\ \A text \in ForeignNames, project \in Project : ~NameOf(text, project)
    /\ StaleAfter \in Nat /\ MaxTime \in Nat /\ MaxTime <= 9 /\ MaxEdits \in Nat
    /\ \A m, n \in Times : ToString(m) = ToString(n) => m = n
    /\ "alt" \notin Key \cup Fingerprint \cup PrintedTimes

-----------------------------------------------------------------------------
(* classify_cleanup_record *)

\* metadata_matches_name: a template's name repeats its fingerprint.
MatchesName(metadata, name) ==
    /\ metadata.kind = name.kind
    /\ metadata.kind = "template" =>
           TemplateName(metadata.project, metadata.fingerprint) = name.text

\* now.saturating_sub(created_at) >= stale_after
StaleAt(metadata, time) ==
    (IF time < metadata.created THEN 0 ELSE time - metadata.created) >= StaleAfter

Classify(project, text, comment, time) ==
    LET name == FromExisting(project, text)
        metadata == Parse(comment)
    IN  IF name = None THEN "ignore"
        ELSE IF metadata = None THEN "unrecognized"
        ELSE IF metadata.project # project \/ ~MatchesName(metadata, name) THEN "unrecognized"
        ELSE IF ~StaleAt(metadata, time) THEN "fresh"
        ELSE "candidate"

-----------------------------------------------------------------------------
Tag(metadata) == [prefix |-> TRUE, parts |-> Encode(metadata)]
Untagged == [prefix |-> FALSE, parts |-> <<>>]

NamesInit ==
    /\ catalog = << >> /\ made = << >>
    /\ dropped = {}
    /\ now = 0 /\ edits = 0

Create(text, comment, truth) ==
    /\ Cardinality(DOMAIN made) < MaxDatabases /\ text \notin DOMAIN made
    /\ made' = [name \in DOMAIN made \cup {text} |-> IF name = text THEN truth ELSE made[name]]
    /\ catalog' = [name \in DOMAIN catalog \cup {text} |->
                      IF name = text THEN comment ELSE catalog[name]]
    /\ UNCHANGED <<dropped, now, edits>>

\* attempt_managed_database_creation, with the comment written.
CreateTest ==
    \E project \in Project, suffix \in TestSuffix, key \in Key :
        LET metadata == [kind |-> "test", project |-> project, lock |-> key, created |-> now]
        IN  Create(TestName(project, suffix), Tag(metadata), metadata)

CreateTemplate ==
    \E project \in Project, f \in Fingerprint, parent \in Parent \cup {NoParent},
      key \in Key, state \in {"initializing", "ready"} :
        LET metadata == [kind |-> "template", project |-> project, lock |-> key,
                         created |-> now, fingerprint |-> f, parent |-> parent,
                         state |-> state]
        IN  /\ parent # f
            /\ Create(TemplateName(project, f), Tag(metadata), metadata)

CreateForeign == \E text \in ForeignNames : Create(text, Untagged, Foreign)

\* What others may do to a comment: lose, repeat, exchange or add a part, write
\* a value another way, or copy the comment of another database.
Respelled(part) == <<part[1], Append(part[2], "alt")>>
Edited(text) ==
    LET parts == catalog[text].parts
        places == DOMAIN parts
    IN  {RemoveAt(parts, i) : i \in places}
        \cup {Append(parts, parts[i]) : i \in places}
        \cup {ReplaceAt(parts, i, Respelled(parts[i])) : i \in {j \in places : Len(parts[j]) = 2}}
        \cup {Append(parts, <<"junk">>), Append(parts, <<"extra", <<"1">> >>), Reverse(parts)}
        \cup {catalog[other].parts : other \in DOMAIN catalog}
EditComment ==
    /\ edits < MaxEdits
    /\ edits' = edits + 1
    /\ \E text \in DOMAIN catalog, prefix \in BOOLEAN : \E parts \in Edited(text) :
           catalog' = [catalog EXCEPT ![text] = [prefix |-> prefix, parts |-> parts]]
    /\ UNCHANGED <<made, dropped, now>>

\* cleanup_stale_blocking for one project, with every lock free.
Sweep(project) ==
    LET candidates == {text \in DOMAIN catalog :
                           Classify(project, text, catalog[text], now) = "candidate"}
    IN  /\ candidates # {}
        /\ catalog' = [text \in DOMAIN catalog \ candidates |-> catalog[text]]
        /\ dropped' = dropped \cup {[by |-> project, text |-> text, comment |-> catalog[text],
                                      at |-> now] : text \in candidates}
        /\ UNCHANGED <<made, now, edits>>

Tick ==
    /\ now < MaxTime
    /\ now' = now + 1
    /\ UNCHANGED <<catalog, made, dropped, edits>>

NamesNext ==
    \/ CreateTest \/ CreateTemplate \/ CreateForeign
    \/ EditComment
    \/ \E project \in Project : Sweep(project)
    \/ Tick

NamesSpec == NamesInit /\ [][NamesNext]_namesVars

-----------------------------------------------------------------------------
NamesTypeOK ==
    /\ DOMAIN catalog \subseteq DOMAIN made
    /\ \A text \in DOMAIN made : made[text] = Foreign \/ made[text] \in Tests \cup Templates
    /\ \A text \in DOMAIN catalog : Parse(catalog[text]) \in Tests \cup Templates \cup {None}
    /\ \A d \in dropped : d.by \in Project /\ d.text \in DOMAIN made
    /\ now \in 0..MaxTime /\ edits \in 0..MaxEdits

\* What one harness writes in a comment another one reads back
\* whole, the optional parent of a derived template included (ResourceMetadata::encode).
RoundTrip ==
    \A text \in DOMAIN made :
        made[text] # Foreign => Parse(Tag(made[text])) = made[text]

\* A comment that is read as metadata says nothing else: it has exactly the
\* parts that writing that metadata again would give, in some order and some
\* spelling; an unknown, a repeated or a missing field makes it no metadata.
ParseStrict ==
    \A text \in DOMAIN catalog :
        LET parsed == Parse(catalog[text])
            parts == catalog[text].parts
            Canonical(part) == <<part[1], IF Last(part[2]) = "alt" THEN Front(part[2]) ELSE part[2]>>
        IN  parsed # None =>
                /\ Len(parts) = Len(Encode(parsed))
                /\ {IF part[1] = "project" THEN part ELSE Canonical(part) : part \in Range(parts)}
                       = Range(Encode(parsed))

\* A name is recognised by the project that made it, as the kind it is, and by
\* no other, however the names of the projects overlap; a name no harness made
\* is nobody's.
NamesDisjoint ==
    \A text \in DOMAIN made, project \in Project :
        LET name == FromExisting(project, text)
        IN  IF made[text] = Foreign THEN name = None
            ELSE IF made[text].project # project THEN name = None
            ELSE name # None /\ name.kind = made[text].kind

\* A sweep drops only what its own project made, with a comment that describes
\* that kind of resource (and, for a template, a fingerprint of the same name)
\* and is older than the limit.  A comment that was lost or damaged, or copied
\* from a resource of another kind, project or fingerprint name, protects the
\* database; one copied from a resource that agrees in all three does not.
SweepOwn ==
    \A d \in dropped :
        LET truth == made[d.text]
            claim == Parse(d.comment)
        IN  /\ truth # Foreign /\ truth.project = d.by
            /\ claim # None /\ claim.project = d.by /\ claim.kind = truth.kind
            /\ claim.created + StaleAfter <= d.at
            /\ claim.kind = "template" => ShortHex[claim.fingerprint] = ShortHex[truth.fingerprint]

\* Comments carry metadata from one harness to the next, and nothing that is
\* not metadata is taken for it.
CommentsFaithful == NamesTypeOK /\ RoundTrip /\ ParseStrict

=============================================================================
