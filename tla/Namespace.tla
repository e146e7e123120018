----------------------------- MODULE Namespace ------------------------------
(* Namespaces: how the uri of a definition becomes a dotted name and a name  *)
(* a uri. A uri is a document and the path of a fragment; names and uris are *)
(* sequences of parts. What was asked is cached with the current namespace.  *)
EXTENDS Integers, Sequences, FiniteSets, SequencesExt

CONSTANTS
  Segs,      \* the parts of names and of uris
  Rank,      \* their order as strings
  Cut,       \* Cut[<<a, b>>]: what follows a in b, or Nothing when b does not
             \* begin with a
  Clean,     \* clean_js_name of a part
  Upper,     \* the parts that begin with a capital
  Defs, Props, \* the parts $defs and properties
  Origin,    \* the parts of a uri before its path
  DocUris,   \* the documents that may be registered
  Paths,     \* of each, the fragments of its definitions, in order
  Bindings,  \* the pairs <<name, uri>> the program adds
  Named,     \* the pairs it registers for all the managers
  Refs,      \* the uris it asks the names of
  CNames,    \* the names it asks the uris of
  CacheSize, \* how many answers are cached; to make room old ones are dropped
  Nothing

Uri(doc, frag) == [doc |-> doc, frag |-> frag]
DocOf(u) == Uri(u.doc, << >>)

Uris == [doc : Seq(Segs), frag : Seq(Segs)]

ASSUME NamespaceAssumption ==
  /\ Rank \in [Segs -> Nat] /\ Clean \in [Segs -> Segs] /\ Upper \subseteq Segs
  /\ \A a, b \in Segs : Rank[a] = Rank[b] => a = b
  /\ Cut \in [Segs \X Segs -> Segs \cup {Nothing}] /\ {Defs, Props} \subseteq Segs
  /\ \A a, b \in Segs : Cut[<<a, b>>] # Nothing /\ a # b => Rank[a] < Rank[b]
  /\ DocUris \subseteq Uris /\ Refs \subseteq Uris /\ CNames \subseteq Seq(Segs)
  /\ \A u \in DocUris : u = DocOf(u) /\ Paths[u] \in Seq(Seq(Segs))
  /\ \A b \in Bindings \cup Named : b[1] \in Seq(Segs) /\ b[2] \in Uris
  /\ Nothing \notin Segs \cup Uris /\ CacheSize \in Nat \ {0}

VARIABLES
  local,      \* _local: names to uris; the name << >> is the current namespace
  builder,    \* _builder_ns, common to all the managers
  docs,       \* the documents of the store, in the order of registration
  current,    \* _current_ns
  currentUri, \* _current_ns_uri
  known,      \* both lru_caches: what was asked in a namespace, to the answer
  stale       \* history: the keys of known whose answers a change of the
              \* registry may have made old

\* The dictionary d with v at k, and the chain of d and e, read in that order.
\* (As @@ and :> of TLC, which proofs cannot expand.)
With(d, k, v) == [x \in DOMAIN d \cup {k} |-> IF x = k THEN v ELSE d[x]]
Chained(d, e) ==
  [x \in DOMAIN d \cup DOMAIN e |-> IF x \in DOMAIN d THEN d[x] ELSE e[x]]

vars == <<local, builder, docs, current, currentUri, known, stale>>

Here == Uri(<< >>, << >>)   \* '#'

Init ==
  /\ local = [n \in {<< >>} |-> Here] /\ builder = << >> /\ docs = << >>
  /\ current = << >> /\ currentUri = Here
  /\ known = << >> /\ stale = {}

-----------------------------------------------------------------------------
(* Prefixes, as the code takes them: of strings for uris and for the current *)
(* namespace, of dotted parts for names.                                     *)

Whole(p, s) == IsPrefix(p, s)
\* The last part of p begins a part of s, without being all of it.
Within(p, s) ==
  /\ p # << >> /\ Len(p) <= Len(s) /\ Whole(Front(p), s)
  /\ Cut[<<Last(p), s[Len(p)]>>] # Nothing
Begins(p, s) == Whole(p, s) \/ Within(p, s)

\* What follows p in s.
After(p, s) ==
  IF Whole(p, s) THEN SubSeq(s, Len(p) + 1, Len(s))
  ELSE <<Cut[<<Last(p), s[Len(p)]>>]>> \o SubSeq(s, Len(p) + 1, Len(s))

\* ref.startswith(u)
UriBegins(u, ref) ==
  IF u.frag = << >> /\ u.doc # << >> THEN Begins(u.doc, ref.doc)
  ELSE u.doc = ref.doc /\ Begins(u.frag, ref.frag)

\* What follows u in ref, cut at the slashes.
Rest(u, ref) ==
  IF u.doc = ref.doc THEN After(u.frag, ref.frag) ELSE After(u.doc, ref.doc) \o ref.frag

\* Names are sorted as strings.
Before(a, b) ==
  \/ IsStrictPrefix(a, b)
  \/ \E i \in DOMAIN a \cap DOMAIN b :
       SubSeq(a, 1, i - 1) = SubSeq(b, 1, i - 1) /\ Rank[a[i]] < Rank[b[i]]
Greatest(names) == CHOOSE n \in names : \A m \in names \ {n} : Before(m, n)

-----------------------------------------------------------------------------
(* Names of fragments and of documents                                       *)

\* Every second part, and the last one.
FragmentName(parts) ==
  [k \in 1..((Len(parts) + 1) \div 2) |->
     Clean[IF 2 * k <= Len(parts) THEN parts[2 * k] ELSE Last(parts)]]

UriName(u) == [i \in DOMAIN u.doc |-> Clean[u.doc[i]]]

Registry == Chained(local, builder)
NoNs == [name |-> << >>, uri |-> Nothing]
Ns(reg, n) == [name |-> n, uri |-> reg[n]]
DocNs(u) == [name |-> UriName(u), uri |-> u]

Dotted(n, cname) == n = cname \/ (n # << >> /\ IsStrictPrefix(n, cname))

\* The last of the namespaces of these names, or else the first document that fits.
LastNs(reg, names, fitting) ==
  IF names # {} THEN Ns(reg, Greatest(names))
  ELSE IF fitting # {} THEN DocNs(docs[Min({i \in DOMAIN docs : docs[i] \in fitting})])
  ELSE NoNs

FindNsByCname(reg, cname) ==
  LastNs(reg, {n \in DOMAIN reg : Dotted(n, cname)},
         {u \in Range(docs) : Dotted(UriName(u), cname)})

UrisBegin(reg, ref) == {n \in DOMAIN reg : UriBegins(reg[n], ref)}

FindNsByUri(reg, ref) ==
  LastNs(reg, UrisBegin(reg, ref), Range(docs) \cap {DocOf(ref)})

NameFrom(ns, ref) ==
  ns.name \o FragmentName(IF ns.uri # Nothing THEN Rest(ns.uri, ref)
                          ELSE IF ref.doc = << >> THEN ref.frag ELSE Origin \o ref.doc \o ref.frag)

IdCname(reg, ref) == NameFrom(FindNsByUri(reg, ref), ref)

\* The fragment of a name in a document: the first path that the document has
\* with these names after any tags, or one made up.
Computed(cns) ==
  LET n == Len(cns)
      tag(i) == IF i = n /\ n > 2 /\ cns[n - 1] \in Upper /\ cns[n] \notin Upper
                THEN Props ELSE Defs
  IN [i \in 1..(2 * n) |-> IF i % 2 = 0 THEN cns[i \div 2] ELSE tag((i + 1) \div 2)]

Fragment(u, cns) ==
  LET fits(p) == Len(p) = 2 * Len(cns) /\ \A i \in DOMAIN cns : p[2 * i] = cns[i]
      found == {k \in DOMAIN Paths[u] : fits(Paths[u][k])}
  IN IF cns = << >> THEN << >>
     ELSE IF u \in Range(docs) /\ found # {} THEN Paths[u][Min(found)] ELSE Computed(cns)

\* Nothing: no namespace at all, the code raises.
IdUnder(u, f, cname) ==
  IF u = Nothing THEN Nothing
  ELSE Uri(u.doc, u.frag \o Fragment(f.uri, SubSeq(cname, Len(f.name) + 1, Len(cname))))

CnameId(reg, cname, ns) ==
  LET From(f) == IdUnder(IF f.uri # Nothing THEN f.uri ELSE FindNsByCname(reg, ns).uri, f, cname)
  IN From(FindNsByCname(reg, cname))

-----------------------------------------------------------------------------
(* The registry                                                              *)

Changes == stale' = DOMAIN known /\ UNCHANGED known

Add(name, uri) ==
  LET u == IF uri.doc = << >> THEN Uri(local[<< >>].doc, uri.frag) ELSE uri
  IN /\ local' = With(local, name, u)
     /\ Changes /\ UNCHANGED <<builder, docs, current, currentUri>>

\* The answers given in the current namespace under another uri than the one it
\* will have when it is set again: it was added again while it was current.
Rebound == {key \in DOMAIN known : key[3] = current /\ local[<< >>] # local[current]}

\* set_current takes the longest name that begins the string; the empty name
\* always does, and stands for whatever was current last.
SetCurrent(name) ==
  LET n == Greatest({m \in DOMAIN local : Begins(m, name)})
  IN /\ current' = n /\ currentUri' = local[n]
     /\ local' = With(local, << >>, local[n])
     /\ stale' = IF n = << >> THEN DOMAIN known ELSE stale \cup Rebound
     /\ UNCHANGED <<builder, docs, known>>

\* register_ns keeps the first uri of a name.
RegisterNs(uri, name) ==
  /\ name \notin DOMAIN builder
  /\ builder' = With(builder, name, DocOf(uri))
  /\ Changes /\ UNCHANGED <<local, docs, current, currentUri>>
RegisterNsUnnamed(uri) == RegisterNs(uri, UriName(DocOf(uri)))

RegisterDoc(u) ==
  /\ u \notin Range(docs) /\ docs' = Append(docs, u)
  /\ Changes /\ UNCHANGED <<local, builder, current, currentUri>>
UnregisterDoc(u) ==
  /\ \E i \in DOMAIN docs : docs[i] = u /\ docs' = RemoveAt(docs, i)
  /\ Changes /\ UNCHANGED <<local, builder, current, currentUri>>

-----------------------------------------------------------------------------
(* Questions                                                                 *)

\* Mutant: the answers of all the namespaces are cached together.
IdKeyAlone(cname) == <<"id", cname, << >> >>
IdKey(cname) == <<"id", cname, current>>
NameKey(ref) == <<"name", ref, current>>

FreshIn(reg, key, ns) ==
  IF key[1] = "name" THEN IdCname(reg, key[2]) ELSE CnameId(reg, key[2], ns)
Fresh(key) == FreshIn(Registry, key, current)
Answer(key) == IF key \in DOMAIN known THEN known[key] ELSE Fresh(key)

Answered(key, answer) ==
  /\ answer # Nothing
  /\ \E dropped \in SUBSET (DOMAIN known \ {key}) :
       LET kept == [k \in DOMAIN known \ dropped |-> known[k]]
       IN /\ dropped # {} => Cardinality(DOMAIN known) = CacheSize /\ key \notin DOMAIN known
          /\ known' = With(kept, key, answer)
          /\ Cardinality(DOMAIN known') <= CacheSize
          /\ stale' = stale \cap DOMAIN kept
  /\ UNCHANGED <<local, builder, docs, current, currentUri>>

Ask(key) == Answered(key, Answer(key))

AskName(ref) == Ask(NameKey(ref))
\* A name with dots in front is completed with the parents of the namespace.
Completed(cname, dots) ==
  IF dots = 0 THEN cname ELSE SubSeq(current, 1, Len(current) - dots + 1) \o cname
AskId(cname, dots) ==
  /\ dots > 0 => current # << >> /\ dots <= Len(current)
  /\ Ask(IdKey(Completed(cname, dots)))

\* What the callers get: a name relative to the current namespace, a uri
\* relative to its document.
RelativeName(cname) ==
  IF current = << >> \/ ~Begins(current, cname) THEN cname
  ELSE IF Whole(current, cname) THEN After(current, cname) ELSE current
\* Mutant: any document is taken for that of the current namespace.
LocalAlways(u) == IF currentUri.doc # << >> THEN Uri(<< >>, u.frag) ELSE u
Local(u) == IF u.doc = currentUri.doc THEN Uri(<< >>, u.frag) ELSE u

\* The type Id: a canonical name or a relative uri out, a full uri in.
ScopedId(u) == IF u.doc = << >> THEN Uri(currentUri.doc, u.frag) ELSE u
ConvertName(cname) == ScopedId(Local(Fresh(IdKey(cname))))
SerializeName(ref) == Fresh(NameKey(ref))
\* An id that is not canonical is serialized relative to the current document.
SerializeId(ref) == Local(ref)

\* `name in manager`; the empty name never is.
IsNamed(ns) == ns.name # << >> /\ ns.uri # Nothing
HasName(cname) == IsNamed(FindNsByCname(Registry, cname))

\* What namespaces() lists; of documents with the same name, the last one.
Available == [n \in {UriName(u) : u \in Range(docs)} |->
                docs[CHOOSE i \in DOMAIN docs :
                       UriName(docs[i]) = n /\ \A j \in DOMAIN docs : UriName(docs[j]) = n => j <= i]]
Namespaces == Chained(Registry, Available)

Next ==
  \/ \E b \in Bindings : Add(b[1], b[2])
  \/ \E b \in Named : RegisterNs(b[2], b[1])
  \/ \E b \in Bindings \cup Named : SetCurrent(b[1])
  \/ \E u \in DocUris : RegisterNsUnnamed(u) \/ RegisterDoc(u) \/ UnregisterDoc(u)
  \/ \E ref \in Refs : AskName(ref)
  \/ \E cname \in CNames, dots \in 0..2 : AskId(cname, dots)

Spec == Init /\ [][Next]_vars

-----------------------------------------------------------------------------
(* Properties                                                                *)

\* A cached answer is what the registry says now, in the namespace where it is
\* asked: it is stale only after a namespace or a document was added or
\* removed, after the current namespace was left for none, or after it was set
\* again when it had been added again with another uri while it was current.
AnswersAreCurrent ==
  /\ \A ref \in Refs : NameKey(ref) \notin stale => Answer(NameKey(ref)) = IdCname(Registry, ref)
  /\ \A cname \in CNames :
       IdKey(cname) \notin stale => Answer(IdKey(cname)) = CnameId(Registry, cname, current)

\* The namespaces are named as their uris are nested.
Nested ==
  LET reg == Registry
  IN \A m, n \in DOMAIN reg \ {<< >>} :
       /\ reg[n].frag = << >>
       /\ Begins(m, n) <=> Begins(reg[m].doc, reg[n].doc)

\* The document of ref has a namespace, the definition a name that is not that
\* of a namespace, and a fragment that its name leads to.
HasOwnName(ref) ==
  LET name == FragmentName(ref.frag)
      reg  == Registry
  IN /\ ref.frag # << >> /\ Fragment(DocOf(ref), name) = ref.frag
     /\ \E n \in DOMAIN reg \ {<< >>} :
          reg[n] = DocOf(ref) /\ FindNsByCname(reg, n \o name).name = n

\* An id that is serialized is converted back to itself, whatever the current
\* namespace and the order of registration: relative to the current document
\* always, as a canonical name where namespaces are named as their uris are
\* nested. The manager has a name when it lists a namespace that begins it.
IdsRoundTrip ==
  /\ \A ref \in Refs : ref.doc # << >> =>
       /\ ScopedId(SerializeId(ref)) = ref
       /\ Nested /\ HasOwnName(ref) => ConvertName(SerializeName(ref)) = ref
  /\ LET listed == DOMAIN Namespaces \ {<< >>}
     IN \A cname \in CNames \cup DOMAIN Registry :
          HasName(cname) <=> \E n \in listed : Dotted(n, cname)
=============================================================================
