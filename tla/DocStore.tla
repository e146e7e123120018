------------------------------ MODULE DocStore ------------------------------
(* Documents: files, the document objects that read and write them, the      *)
(* process-wide store of documents by uri, and the three ways to resolve a   *)
(* uri: through a cache, directly, and by a resolver with a copy of the      *)
(* store.                                                                    *)
EXTENDS Integers, Sequences, FiniteSets, SequencesExt, TLC

CONSTANTS
  Docs, Files,
  Uris,             \* as they are written
  KeyOf,            \* the form of a uri that UriDict keeps: without case
  Asked,            \* the uris that are resolved
  Parts,            \* what may be written in a file in one go
  Parsed,           \* the parts that can be parsed alone
  IdOf,             \* the $id in a part, or Nothing
  OwnId,            \* the $id given to a document object, or Nothing
  Stem,             \* the name of a file as a uri
  Web,              \* what is served for a uri, or Nothing
  MaxLength,        \* bound: the parts in a file
  Nothing

ASSUME DocStoreAssumption ==
  /\ Parsed \subseteq Parts /\ Nothing \notin Parts \cup Uris \cup Files
  /\ IdOf \in [Parts -> Uris \cup {Nothing}] /\ OwnId \in [Docs -> Uris \cup {Nothing}]
  /\ KeyOf \in [Uris -> Uris] /\ \A u \in Uris : KeyOf[KeyOf[u]] = KeyOf[u]
  /\ Asked \subseteq Uris
  /\ Stem \in [Files -> Uris] /\ Web \in [Asked -> Parts \cup {Nothing}]
  /\ MaxLength \in Nat \ {0}

Contents == SeqOf(Parts, MaxLength) \ {<< >>}
Keys == {KeyOf[u] : u \in Uris}
Questions == Asked \X BOOLEAN   \* of the cache: a uri, and whether remotely

VARIABLES
  disk,       \* what is in a file, or Nothing
  filepath,   \* of a document object, or Nothing
  raw,        \* its contentRaw, content and doc_id: the values that were read
  content,    \* and cached, or Nothing
  docId,
  readFrom,   \* history: the file that raw was read from
  store,      \* UriResolver._doc_store, a UriDict
  cache,      \* lru_cache of resolve_doc
  changed,    \* history: the store changed there since the cache was filled
  copy,       \* the store of a resolver made for a uri that was not in the
              \* store, or Nothing when it shares the store
  registered  \* history: whether the last step was a registration

documents == <<filepath, raw, content, docId, readFrom>>
resolution == <<cache, copy>>
vars == <<disk, documents, store, resolution, changed, registered>>

Init ==
  /\ disk \in [Files -> {Nothing} \cup {<<p>> : p \in Parts}]
  /\ filepath \in [Docs -> Files \cup {Nothing}]
  /\ raw = [d \in Docs |-> Nothing] /\ content = raw /\ docId = raw /\ readFrom = raw
  /\ store = [k \in Keys |-> Nothing]
  /\ cache = [q \in Questions |-> Nothing] /\ changed = [q \in Questions |-> FALSE]
  /\ copy = Nothing /\ registered = FALSE

-----------------------------------------------------------------------------
(* Document objects. A value that is cached is read again when a value it    *)
(* depends on changed: filepath -> contentRaw -> content -> doc_id.          *)

Registered(u) == IF u = Nothing THEN Nothing ELSE store[KeyOf[u]]
With(u, c) == [store EXCEPT ![KeyOf[u]] = c]

\* open() raises when there is no file. An object without a path asks for its
\* uri as it was parsed, which urldefrag does not take: that raises too.
Found(d) == IF filepath[d] # Nothing THEN disk[filepath[d]] ELSE Nothing
RawNow(d) == IF raw[d] # Nothing THEN raw[d] ELSE Found(d)

Parse(c) ==
  IF c # Nothing /\ Len(c) = 1 /\ c[1] \in Parsed THEN c[1] ELSE Nothing

\* An exception, of the file or of the parser, is logged: the content is None.
ContentNow(d) == IF content[d] # Nothing THEN content[d] ELSE Parse(RawNow(d))
DocIdNow(d) ==
  IF docId[d] # Nothing THEN docId[d]
  ELSE IF ContentNow(d) = Nothing THEN Nothing ELSE IdOf[ContentNow(d)]

Read(d) ==
  /\ raw' = [raw EXCEPT ![d] = RawNow(d)]
  /\ readFrom' = [readFrom EXCEPT ![d] = IF raw[d] # Nothing THEN @ ELSE
                    IF RawNow(d) = Nothing THEN Nothing ELSE filepath[d]]
ReadThrough(d) == Read(d) /\ content' = [content EXCEPT ![d] = ContentNow(d)]
ReadToId(d) == ReadThrough(d) /\ docId' = [docId EXCEPT ![d] = DocIdNow(d)]

Quiet == registered' = FALSE
Elsewhere == UNCHANGED <<disk, store, resolution, changed>> /\ Quiet

ReadRaw(d) == Read(d) /\ UNCHANGED <<filepath, content, docId>> /\ Elsewhere
ReadContent(d) == ReadThrough(d) /\ UNCHANGED <<filepath, docId>> /\ Elsewhere
ReadDocId(d) == ReadToId(d) /\ UNCHANGED filepath /\ Elsewhere

Reset(f, d) == [f EXCEPT ![d] = Nothing]
\* Mutant: what depends on the raw content is not reset with it.
TouchRaw(d) ==
  /\ raw' = Reset(raw, d) /\ readFrom' = Reset(readFrom, d)
  /\ UNCHANGED <<content, docId>>
\* _items_touch resets what depends on a value, transitively.
Touch(d) ==
  /\ raw' = Reset(raw, d) /\ content' = Reset(content, d) /\ docId' = Reset(docId, d)
  /\ readFrom' = Reset(readFrom, d)

Becomes(d, f) ==
  IF f = filepath[d] THEN UNCHANGED documents
  ELSE filepath' = [filepath EXCEPT ![d] = f] /\ Touch(d)
SetFilepath(d, f) == f # filepath[d] /\ Becomes(d, f) /\ Elsewhere

\* _write_file writes nothing that is in the file already; _append_file raises
\* when there is no file.
Put(f, p, append) ==
  /\ append /\ disk[f] # Nothing => Len(disk[f]) < MaxLength
  /\ disk' = CASE ~append -> [disk EXCEPT ![f] = <<p>>]
               [] append /\ disk[f] # Nothing -> [disk EXCEPT ![f] = Append(@, p)]
               [] OTHER -> disk
  /\ UNCHANGED <<store, resolution, changed>> /\ Quiet

\* What was read of a file is kept when the file is written: by another
\* program, by write, which needs a path, or by save, whose path is not kept.
Edit(f, p) == Put(f, p, FALSE) /\ UNCHANGED documents
Write(d, p, append) == filepath[d] # Nothing /\ Put(filepath[d], p, append) /\ UNCHANGED documents
Save(d, f, p, append) == Put(f, p, append) /\ UNCHANGED documents

\* write_file, append_file and save_file: the object is for the file from then
\* on, also when there is nothing to append to.
WriteFile(d, f, p, append) == Put(f, p, append) /\ Becomes(d, f)

DelFile(d) ==
  /\ filepath[d] # Nothing /\ disk[filepath[d]] # Nothing
  /\ disk' = [disk EXCEPT ![filepath[d]] = Nothing]
  /\ UNCHANGED <<documents, store, resolution, changed>> /\ Quiet

-----------------------------------------------------------------------------
(* The store                                                                 *)

StoreBecomes(s) ==
  /\ store' = s
  /\ changed' = [q \in Questions |->
       cache[q] # Nothing /\ (changed[q] \/ s[KeyOf[q[1]]] # Registered(q[1]))]

RegisterDoc(c, u) ==
  /\ StoreBecomes(With(u, c)) /\ registered' = TRUE
  /\ UNCHANGED <<disk, documents, resolution>>

UnregisterDoc(u) ==
  /\ StoreBecomes(With(u, Nothing)) /\ Quiet
  /\ UNCHANGED <<disk, documents, resolution>>

\* load_schema_file: the name of the file stands for an id; a file that is
\* missing or is not JSON raises.
LoadSchemaFile(f) ==
  LET c == Parse(disk[f])
      u == IF IdOf[c] = Nothing THEN Stem[f] ELSE IdOf[c]
  IN c # Nothing /\ RegisterDoc(c, u)

\* Document.load, when there is an id, and unload, which unregisters the id of
\* the object and not that of its content.
Load(d) ==
  /\ ReadToId(d)
  /\ IF DocIdNow(d) # Nothing
     THEN /\ StoreBecomes(With(DocIdNow(d), ContentNow(d)))
          /\ registered' = TRUE
     ELSE UNCHANGED <<store, changed>> /\ Quiet
  /\ UNCHANGED <<disk, filepath, resolution>>

Unload(d) ==
  /\ IF OwnId[d] # Nothing THEN StoreBecomes(With(OwnId[d], Nothing))
     ELSE UNCHANGED <<store, changed>>
  /\ Touch(d) /\ Quiet
  /\ UNCHANGED <<disk, filepath, resolution>>

-----------------------------------------------------------------------------
(* Resolution                                                                *)

\* What resolve_doc answers when it is not in the cache; Nothing: it raises.
Fetched(u, remote) ==
  IF Registered(u) # Nothing THEN Registered(u) ELSE IF remote THEN Web[u] ELSE Nothing

\* Mutant: the cache does not tell a remote answer from a local one.
ResolveDocMixed(u, remote) ==
  IF cache[<<u, TRUE>>] # Nothing THEN cache[<<u, TRUE>>]
  ELSE IF cache[<<u, FALSE>>] # Nothing THEN cache[<<u, FALSE>>] ELSE Fetched(u, remote)
ResolveDoc(u, remote) ==
  IF cache[<<u, remote>>] # Nothing THEN cache[<<u, remote>>] ELSE Fetched(u, remote)

\* An exception is not cached; what was fetched from the web is registered.
Remember(u, remote) ==
  LET new == cache[<<u, remote>>] = Nothing
      s == IF new /\ remote THEN With(u, Fetched(u, remote)) ELSE store
  IN /\ cache' = [cache EXCEPT ![<<u, remote>>] = ResolveDoc(u, remote)]
     /\ StoreBecomes(s)
     /\ registered' = (s # store)

ResolveUri(u, remote) == Remember(u, remote) /\ UNCHANGED <<disk, documents, copy>>

\* _resolve does not use the cache; a remote document without fragment is
\* not registered.
Resolve(u) ==
  /\ Registered(u) = Nothing /\ Web[u] # Nothing
  /\ RegisterDoc(Web[u], u)

\* The cache holds 128 answers: an old one may be dropped.
Forget(u, remote) ==
  /\ cache' = [cache EXCEPT ![<<u, remote>>] = Nothing]
  /\ changed' = [changed EXCEPT ![<<u, remote>>] = FALSE]
  /\ Quiet /\ UNCHANGED <<disk, documents, store, copy>>

IsEmpty == \A k \in Keys : store[k] = Nothing

\* What the resolver is made for: a schema that is given, or what resolve_uri
\* answers.
Referrer(u, schema) == IF schema # Nothing THEN schema ELSE ResolveDoc(u, FALSE)

\* Mutant: the resolver of an unregistered uri writes in the common store.
CreateShared(u, schema) ==
  /\ Referrer(u, schema) # Nothing
  /\ copy' = Nothing /\ StoreBecomes(With(u, Referrer(u, schema)))
  /\ Quiet /\ UNCHANGED <<disk, documents, cache>>

\* UriResolver.create: a resolver for a registered document shares the store;
\* another has a copy of the store, to which its document is added. The copy is
\* a dict, where a uri is found only as it is written; one that is empty is
\* false, so that the resolver takes the store itself.
Create(u, schema) ==
  /\ Registered(u) = Nothing => Referrer(u, schema) # Nothing
  /\ IF Registered(u) = Nothing /\ ~IsEmpty
     THEN copy' = (u :> Referrer(u, schema)) @@ store
     ELSE copy' = Nothing
  /\ IF Registered(u) = Nothing /\ IsEmpty
     THEN StoreBecomes(With(u, Referrer(u, schema)))
     ELSE UNCHANGED <<store, changed>>
  /\ Quiet /\ UNCHANGED <<disk, documents, cache>>

ResolverFinds(u) ==
  IF copy = Nothing THEN Registered(u) ELSE IF u \in DOMAIN copy THEN copy[u] ELSE Nothing

Next ==
  \/ \E f \in Files :
       \/ LoadSchemaFile(f)
       \/ \E p \in Parts : Edit(f, p)
  \/ \E d \in Docs :
       \/ ReadRaw(d) \/ ReadContent(d) \/ ReadDocId(d) \/ Load(d) \/ Unload(d)
       \/ DelFile(d)
       \/ \E f \in Files : SetFilepath(d, f)
       \/ \E p \in Parts, append \in BOOLEAN :
            \/ Write(d, p, append)
            \/ \E f \in Files : Save(d, f, p, append) \/ WriteFile(d, f, p, append)
  \/ \E u \in Uris :
       \/ UnregisterDoc(u)
       \/ \E p \in Parsed : RegisterDoc(p, u)
  \/ \E u \in Asked :
       \/ Resolve(u)
       \/ \E schema \in Parsed \cup {Nothing} : Create(u, schema)
       \/ \E remote \in BOOLEAN : ResolveUri(u, remote) \/ Forget(u, remote)

Spec == Init /\ [][Next]_vars

-----------------------------------------------------------------------------
(* Properties                                                                *)

TypeOK ==
  /\ disk \in [Files -> Contents \cup {Nothing}]
  /\ filepath \in [Docs -> Files \cup {Nothing}]
  /\ readFrom \in [Docs -> Files \cup {Nothing}]
  /\ raw \in [Docs -> Contents \cup {Nothing}]
  /\ content \in [Docs -> Parts \cup {Nothing}] /\ docId \in [Docs -> Uris \cup {Nothing}]
  /\ store \in [Keys -> Parts \cup {Nothing}] /\ cache \in [Questions -> Parts \cup {Nothing}]
  /\ copy # Nothing => Keys \subseteq DOMAIN copy /\ Range(copy) \subseteq Parts \cup {Nothing}
  /\ changed \in [Questions -> BOOLEAN] /\ registered \in BOOLEAN

\* What a document object keeps of its file is of one piece: an id is that of
\* the content, the content that of the raw content, and the raw content was
\* read from the file the object is for now.
DocumentsAgree ==
  \A d \in Docs :
    /\ raw[d] # Nothing => readFrom[d] = filepath[d]
    /\ content[d] # Nothing => content[d] = Parse(raw[d])
    /\ docId[d] # Nothing => content[d] # Nothing /\ docId[d] = IdOf[content[d]]

\* A uri is resolved to what is registered for it, unless that changed since
\* it was resolved in the same way; in particular one that could not be
\* resolved is found as soon as it is registered.
CacheIsCurrent ==
  \A u \in Asked, remote \in BOOLEAN :
    ~changed[<<u, remote>>] => ResolveDoc(u, remote) = Fetched(u, remote)

\* A document that is not registered, or no longer, is not registered by
\* resolving it or by making a resolver for it, whatever caches and resolvers
\* remember of it, unless nothing is registered: then, and only then, a resolver
\* registers the one document it is made for, although it is said to have "a copy"
\* (uri_resolver.py:142).
ResolvingRegistersNothing ==
  [][\A k \in Keys : store'[k] # store[k] /\ store'[k] # Nothing =>
       \/ registered'
       \/ IsEmpty /\ (\A j \in Keys \ {k} : store'[j] = Nothing) /\ copy' = Nothing]_vars
=============================================================================
