---------------------------------- MODULE Config ----------------------------------
(***************************************************************************)
(* internal/config/config.go: from a file and the environment to the       *)
(* configuration of a process, or to no process at all.                    *)
(*                                                                         *)
(* A text of a profile is a record                                         *)
(*   ink    what is between its surrounding white space, "" for nothing;   *)
(*   pad    there is white space around it.                                *)
(* A source's name is a number, its rank among names, 0 for a blank one.   *)
(* Its dsn is the variable it refers to, or NoReference.                   *)
(***************************************************************************)
EXTENDS Naturals, Sequences, FiniteSets

CONSTANTS
    Inks,           \* what texts say
    Runes,          \* the length of each in code points
    ValidUTF8,      \* those that are; a YAML !!binary value may not be
    MaxRunes,       \* of each of "display_name", "description" and "item"
    MaxItems        \* of each of "aliases" and "keywords"

ASSUME ConfigAssumption == Runes \in [Inks -> Nat]

\* A dsn that is blank, or anything but exactly ${NAME}.
NoReference == ""

Texts == [ink : Inks, pad : BOOLEAN]

SourceConfigs ==
    [name : Nat, display_name : Texts, description : Texts,
     aliases : Seq(Texts), keywords : Seq(Texts), type : STRING, dsn : STRING]

ConfigFiles == [form : STRING, mode : STRING, sources : Seq(SourceConfigs)]

\* os.ReadFile, KnownFields, and the second Decode that must find the end.
Decodes(file) == file.form = "one_document"

TrimSpace(t) == [t EXCEPT !.pad = FALSE]

\* utf8.RuneCountInString: white space counts until it is trimmed.
RuneCount(t) == Runes[t.ink] + (IF t.pad THEN 1 ELSE 0)

\* Mutant: the keywords keep their white space.
KeywordsUntrimmed(source) ==
    [source EXCEPT
        !.display_name = TrimSpace(@),
        !.description = TrimSpace(@),
        !.aliases = [k \in DOMAIN @ |-> TrimSpace(@[k])]]

normalizeSourceProfile(source) ==
    [source EXCEPT
        !.display_name = TrimSpace(@),
        !.description = TrimSpace(@),
        !.aliases = [k \in DOMAIN @ |-> TrimSpace(@[k])],
        !.keywords = [k \in DOMAIN @ |-> TrimSpace(@[k])]]

validateRequiredProfileField(field, value) ==
    value.ink # "" /\ value.ink \in ValidUTF8 /\ RuneCount(value) <= MaxRunes[field]

\* Mutant: an item is compared with its neighbour only.
NeighboursDiffer(field, items) ==
    /\ Len(items) <= MaxItems[field]
    /\ \A k \in DOMAIN items :
          /\ validateRequiredProfileField("item", items[k])
          /\ items[k] \notin {items[j] : j \in {k - 1} \cap DOMAIN items}

\* The k-th item against those the loop has seen.
validateProfileItems(field, items) ==
    /\ Len(items) <= MaxItems[field]
    /\ \A k \in DOMAIN items :
          /\ validateRequiredProfileField("item", items[k])
          /\ items[k] \notin {items[j] : j \in 1 .. (k - 1)}

\* What validateSourceProfile is given has been normalised.
validateSourceProfile(source) ==
    /\ validateRequiredProfileField("display_name", source.display_name)
    /\ validateRequiredProfileField("description", source.description)
    /\ validateProfileItems("aliases", source.aliases)
    /\ validateProfileItems("keywords", source.keywords)

\* The profiles are normalised in place, so what is validated is what is kept.
Normalized(file) == [k \in DOMAIN file.sources |-> normalizeSourceProfile(file.sources[k])]

\* The first loop over the sources; names are compared as they are written.
SourceAccepted(sources, k) ==
    /\ sources[k].name # 0
    /\ sources[k].name \notin {sources[j].name : j \in 1 .. (k - 1)}
    /\ validateSourceProfile(sources[k])
    /\ sources[k].type \in {"mysql", "clickhouse"}
    /\ sources[k].dsn # NoReference

\* The second loop: the variable is set, and not to white space.
Resolved(sources, environment, k) ==
    /\ sources[k].dsn \in DOMAIN environment
    /\ environment[sources[k].dsn] # ""

\* Load returns no error.
Loads(file, environment) ==
    /\ Decodes(file)
    /\ file.mode \in {"", "quick", "strict"}
    /\ file.sources # <<>>
    /\ \A k \in DOMAIN file.sources : SourceAccepted(Normalized(file), k)
    /\ \A k \in DOMAIN file.sources : Resolved(Normalized(file), environment, k)

\* What it returns then.
Loaded(file) ==
    [mode |-> IF file.mode = "" THEN "quick" ELSE file.mode,
     sources |-> Normalized(file)]
=============================================================================
