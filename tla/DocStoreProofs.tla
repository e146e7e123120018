---------------------------- MODULE DocStoreProofs ----------------------------
(* Proofs about DocStore, for any documents, files, uris and contents.         *)
(*                                                                             *)
(* DocumentsAgree and CacheIsCurrent are inductive once the variables are      *)
(* known to be functions: each is shown of one document, or of one question,   *)
(* from what a step does to it.                                                *)
EXTENDS DocStore, TLAPS

IsOn(f, S) == f = [x \in S |-> f[x]]

Shaped ==
  /\ filepath \in [Docs -> Files \cup {Nothing}]
  /\ IsOn(raw, Docs) /\ IsOn(content, Docs) /\ IsOn(docId, Docs) /\ IsOn(readFrom, Docs)
  /\ IsOn(store, Keys)
  /\ IsOn(cache, Questions) /\ IsOn(changed, Questions)

\* The pieces an object keeps, and the cache of one question.
Agrees(d) ==
  /\ raw[d] # Nothing => readFrom[d] = filepath[d]
  /\ content[d] # Nothing => content[d] = Parse(raw[d])
  /\ docId[d] # Nothing => content[d] # Nothing /\ docId[d] = IdOf[content[d]]

Current(u, remote) ==
  changed[<<u, remote>>] \/ cache[<<u, remote>>] = Nothing
  \/ cache[<<u, remote>>] = Fetched(u, remote)

IInv ==
  /\ Shaped
  /\ \A d \in Docs : Agrees(d)
  /\ \A u \in Asked, remote \in BOOLEAN : Current(u, remote)

LEMMA ParseNothing == Parse(Nothing) = Nothing
BY DEF Parse

LEMMA KeyIsKey ==
  ASSUME NEW u \in Uris
  PROVE  KeyOf[u] \in Keys /\ u # Nothing
BY DocStoreAssumption DEF Keys

LEMMA AskedAreUris ==
  ASSUME NEW u \in Asked
  PROVE  u \in Uris
BY DocStoreAssumption

LEMMA InvariantsFollow == IInv => DocumentsAgree /\ CacheIsCurrent
<1> SUFFICES ASSUME IInv
             PROVE  DocumentsAgree /\ CacheIsCurrent
  OBVIOUS
<1>1. DocumentsAgree
  BY DEF IInv, Agrees, DocumentsAgree
<1>2. CacheIsCurrent
  BY DEF IInv, Current, CacheIsCurrent, ResolveDoc
<1> QED
  BY <1>1, <1>2

LEMMA Start == Init => IInv
<1> SUFFICES ASSUME Init
             PROVE  IInv
  OBVIOUS
<1>1. Shaped
  BY DEF Init, Shaped, IsOn
<1>2. ASSUME NEW d \in Docs
      PROVE  Agrees(d)
  BY DEF Init, Agrees
<1>3. ASSUME NEW u \in Asked, NEW remote \in BOOLEAN
      PROVE  Current(u, remote)
  BY DEF Init, Current, Questions
<1> QED
  BY <1>1, <1>2, <1>3 DEF IInv

-----------------------------------------------------------------------------
(* What the parts of the actions keep                                          *)

\* Documents whose values stay, which are read further, or reset.
DocsShaped == 
  /\ filepath \in [Docs -> Files \cup {Nothing}]
  /\ IsOn(raw, Docs) /\ IsOn(content, Docs) /\ IsOn(docId, Docs) /\ IsOn(readFrom, Docs)
DocsOK == DocsShaped /\ \A d \in Docs : Agrees(d)

StoreOK ==
  /\ IsOn(store, Keys) /\ IsOn(cache, Questions) /\ IsOn(changed, Questions)
  /\ \A u \in Asked, remote \in BOOLEAN : Current(u, remote)

LEMMA Parted == IInv <=> DocsOK /\ StoreOK
BY DEF IInv, DocsOK, DocsShaped, StoreOK, Shaped

LEMMA PartedNext == IInv' <=> DocsOK' /\ StoreOK'
BY DEF IInv, DocsOK, DocsShaped, StoreOK, Shaped

LEMMA DocumentsStay ==
  ASSUME DocsOK, UNCHANGED documents
  PROVE  DocsOK'
BY DEF DocsOK, DocsShaped, Agrees, documents

LEMMA ReadRawKeeps ==
  ASSUME DocsOK, NEW d \in Docs, Read(d), UNCHANGED <<filepath, content, docId>>
  PROVE  DocsOK'
<1>1. DocsShaped'
  BY DEF DocsOK, DocsShaped, Read, IsOn
<1>2. ASSUME NEW e \in Docs
      PROVE  Agrees(e)'
  <2>1. Agrees(e)
    BY DEF DocsOK
  <2>2. content[e] # Nothing => raw'[e] = raw[e]
    <3>1. content[e] # Nothing => raw[e] # Nothing
      BY <2>1, ParseNothing DEF Agrees
    <3> QED
      BY <3>1 DEF DocsOK, DocsShaped, IsOn, Read, RawNow
  <2>3. raw'[e] # Nothing => readFrom'[e] = filepath[e]
    BY <2>1 DEF DocsOK, DocsShaped, IsOn, Read, RawNow, Agrees
  <2> QED
    BY <2>1, <2>2, <2>3 DEF Agrees
<1> QED
  BY <1>1, <1>2 DEF DocsOK

LEMMA ReadContentKeeps ==
  ASSUME DocsOK, NEW d \in Docs, ReadThrough(d), UNCHANGED <<filepath, docId>>
  PROVE  DocsOK'
<1>1. DocsShaped'
  BY DEF DocsOK, DocsShaped, ReadThrough, Read, IsOn
<1>2. ASSUME NEW e \in Docs
      PROVE  Agrees(e)'
  <2>1. Agrees(e)
    BY DEF DocsOK
  <2>2. content[e] # Nothing => raw'[e] = raw[e] /\ content'[e] = content[e]
    <3>1. content[e] # Nothing => raw[e] # Nothing
      BY <2>1, ParseNothing DEF Agrees
    <3> QED
      BY <3>1 DEF DocsOK, DocsShaped, IsOn, ReadThrough, Read, RawNow, ContentNow
  <2>3. raw'[e] # Nothing => readFrom'[e] = filepath[e]
    BY <2>1 DEF DocsOK, DocsShaped, IsOn, ReadThrough, Read, RawNow, Agrees
  <2>4. content[e] = Nothing /\ content'[e] # Nothing => content'[e] = Parse(raw'[e])
    BY DEF DocsOK, DocsShaped, IsOn, ReadThrough, Read, RawNow, ContentNow
  <2> QED
    BY <2>1, <2>2, <2>3, <2>4 DEF Agrees
<1> QED
  BY <1>1, <1>2 DEF DocsOK

LEMMA ReadToIdKeeps ==
  ASSUME DocsOK, NEW d \in Docs, ReadToId(d), UNCHANGED filepath
  PROVE  DocsOK'
<1>1. DocsShaped'
  BY DEF DocsOK, DocsShaped, ReadToId, ReadThrough, Read, IsOn
<1>2. ASSUME NEW e \in Docs
      PROVE  Agrees(e)'
  <2>1. Agrees(e)
    BY DEF DocsOK
  <2>2. content[e] # Nothing => raw'[e] = raw[e] /\ content'[e] = content[e]
    <3>1. content[e] # Nothing => raw[e] # Nothing
      BY <2>1, ParseNothing DEF Agrees
    <3> QED
      BY <3>1 DEF DocsOK, DocsShaped, IsOn, ReadToId, ReadThrough, Read, RawNow, ContentNow
  <2>3. raw'[e] # Nothing => readFrom'[e] = filepath[e]
    BY <2>1 DEF DocsOK, DocsShaped, IsOn, ReadToId, ReadThrough, Read, RawNow, Agrees
  <2>4. content[e] = Nothing /\ content'[e] # Nothing => content'[e] = Parse(raw'[e])
    BY DEF DocsOK, DocsShaped, IsOn, ReadToId, ReadThrough, Read, RawNow, ContentNow
  <2>5. docId'[e] # Nothing => content'[e] # Nothing /\ docId'[e] = IdOf[content'[e]]
    <3>1. docId[e] # Nothing => docId'[e] = docId[e]
      BY DEF DocsOK, DocsShaped, IsOn, ReadToId, DocIdNow
    <3>2. docId[e] = Nothing /\ docId'[e] # Nothing
            => content'[e] # Nothing /\ docId'[e] = IdOf[content'[e]]
      BY DEF DocsOK, DocsShaped, IsOn, ReadToId, ReadThrough, DocIdNow
    <3> QED
      BY <2>1, <2>2, <3>1, <3>2 DEF Agrees
  <2> QED
    BY <2>1, <2>2, <2>3, <2>4, <2>5 DEF Agrees
<1> QED
  BY <1>1, <1>2 DEF DocsOK

\* A reset object agrees with any file.
LEMMA TouchKeeps ==
  ASSUME DocsOK, NEW d \in Docs, Touch(d),
         filepath' \in {filepath} \cup {[filepath EXCEPT ![d] = f] : f \in Files}
  PROVE  DocsOK'
<1>1. DocsShaped'
  BY DEF DocsOK, DocsShaped, Touch, Reset, IsOn
<1>2. ASSUME NEW e \in Docs
      PROVE  Agrees(e)'
  BY DEF DocsOK, DocsShaped, IsOn, Touch, Reset, Agrees
<1> QED
  BY <1>1, <1>2 DEF DocsOK

LEMMA BecomesKeeps ==
  ASSUME DocsOK, NEW d \in Docs, NEW f \in Files, Becomes(d, f)
  PROVE  DocsOK'
<1>1. CASE UNCHANGED documents
  BY <1>1, DocumentsStay
<1>2. CASE filepath' = [filepath EXCEPT ![d] = f] /\ Touch(d)
  BY <1>2, TouchKeeps
<1> QED
  BY <1>1, <1>2 DEF Becomes

-----------------------------------------------------------------------------
(* The store and its cache                                                     *)

LEMMA StoreStays ==
  ASSUME StoreOK, UNCHANGED <<store, cache, changed>>
  PROVE  StoreOK'
BY DEF StoreOK, Current, Fetched, Registered

\* A change of the store marks the answers it makes stale.
LEMMA RegisteringKeeps ==
  ASSUME StoreOK, NEW s, IsOn(s, Keys), StoreBecomes(s), UNCHANGED cache
  PROVE  StoreOK'
<1>1. IsOn(store, Keys)' /\ IsOn(cache, Questions)' /\ IsOn(changed, Questions)'
  BY DEF StoreOK, StoreBecomes, IsOn
<1>2. ASSUME NEW u \in Asked, NEW remote \in BOOLEAN
      PROVE  Current(u, remote)'
  <2>1. Current(u, remote) /\ <<u, remote>> \in Questions /\ u # Nothing
    BY AskedAreUris, KeyIsKey DEF StoreOK, Questions
  <2>2. cache[<<u, remote>>] # Nothing /\ ~changed'[<<u, remote>>]
          => ~changed[<<u, remote>>] /\ store'[KeyOf[u]] = store[KeyOf[u]]
    BY <2>1 DEF StoreBecomes, Registered
  <2> QED
    BY <2>1, <2>2 DEF Current, Fetched, Registered
<1> QED
  BY <1>1, <1>2 DEF StoreOK

LEMMA WithIsOn ==
  ASSUME IsOn(store, Keys), NEW u, NEW c
  PROVE  IsOn(With(u, c), Keys)
BY DEF IsOn, With

\* An answer that enters the cache is what would be answered again, also when
\* it was fetched and the store learns it.
LEMMA RememberKeeps ==
  ASSUME StoreOK, NEW u \in Asked, NEW remote \in BOOLEAN, Remember(u, remote)
  PROVE  StoreOK'
<1> DEFINE q0 == <<u, remote>>
           learns == cache[q0] = Nothing /\ remote
           s == IF learns THEN With(u, Fetched(u, remote)) ELSE store
<1>1. StoreBecomes(s) /\ cache' = [cache EXCEPT ![q0] = ResolveDoc(u, remote)]
  BY DEF Remember
<1>2. q0 \in Questions /\ u # Nothing /\ KeyOf[u] \in Keys
  BY AskedAreUris, KeyIsKey DEF Questions
<1>3. IsOn(s, Keys)
  BY WithIsOn DEF StoreOK
<1>4. IsOn(store, Keys)' /\ IsOn(cache, Questions)' /\ IsOn(changed, Questions)'
  BY <1>1, <1>3 DEF StoreOK, StoreBecomes, IsOn
<1>5. ASSUME NEW v \in Asked, NEW r \in BOOLEAN
      PROVE  Current(v, r)'
  <2> DEFINE q == <<v, r>>
  <2>1. Current(v, r) /\ q \in Questions /\ v # Nothing
    BY AskedAreUris, KeyIsKey DEF StoreOK, Questions
  <2>2. CASE q # q0
    <3>1. cache'[q] = cache[q]
      BY <1>1, <2>1, <2>2 DEF StoreOK, IsOn
    <3>2. cache[q] # Nothing /\ ~changed'[q] => ~changed[q] /\ store'[KeyOf[v]] = store[KeyOf[v]]
      BY <1>1, <2>1 DEF StoreBecomes, Registered
    <3> QED
      BY <2>1, <3>1, <3>2 DEF Current, Fetched, Registered
  <2>3. CASE q = q0 /\ cache[q0] # Nothing
    <3>1. cache'[q] = cache[q] /\ store' = store
      BY <1>1, <1>2, <2>3 DEF ResolveDoc, StoreOK, IsOn, StoreBecomes
    <3>2. ~changed'[q] => ~changed[q]
      BY <1>1, <1>2, <2>3 DEF StoreBecomes
    <3> QED
      BY <2>1, <3>1, <3>2 DEF Current, Fetched, Registered
  <2>4. CASE q = q0 /\ cache[q0] = Nothing
    <3>1. v = u /\ r = remote
      BY <2>4
    <3>2. cache'[q] = Fetched(u, remote)
      BY <1>1, <1>2, <2>4 DEF ResolveDoc, StoreOK, IsOn
    <3>3. CASE remote
      <4>1. store'[KeyOf[u]] = Fetched(u, remote)
        BY <1>1, <1>2, <2>4, <3>3 DEF StoreBecomes, With, StoreOK, IsOn
      <4> QED
        BY <1>2, <3>1, <3>2, <3>3, <4>1 DEF Current, Fetched, Registered
    <3>4. CASE ~remote
      <4>1. store' = store
        BY <1>1, <3>4 DEF StoreBecomes
      <4> QED
        BY <3>1, <3>2, <4>1 DEF Current, Fetched, Registered
    <3> QED
      BY <3>3, <3>4
  <2> QED
    BY <2>2, <2>3, <2>4
<1> QED
  BY <1>4, <1>5 DEF StoreOK

LEMMA ForgetKeeps ==
  ASSUME StoreOK, NEW u \in Asked, NEW remote \in BOOLEAN, Forget(u, remote)
  PROVE  StoreOK'
<1>1. IsOn(store, Keys)' /\ IsOn(cache, Questions)' /\ IsOn(changed, Questions)'
  BY DEF StoreOK, Forget, IsOn
<1>2. ASSUME NEW v \in Asked, NEW r \in BOOLEAN
      PROVE  Current(v, r)'
  <2>1. Current(v, r) /\ <<v, r>> \in Questions
    BY DEF StoreOK, Questions
  <2>2. CASE <<v, r>> = <<u, remote>>
    BY <2>1, <2>2 DEF Forget, Current, StoreOK, IsOn
  <2>3. CASE <<v, r>> # <<u, remote>>
    BY <2>1, <2>3 DEF Forget, Current, StoreOK, IsOn, Fetched, Registered
  <2> QED
    BY <2>2, <2>3
<1> QED
  BY <1>1, <1>2 DEF StoreOK

-----------------------------------------------------------------------------
(* The actions                                                                 *)

LEMMA FilesKeep ==
  ASSUME DocsOK, StoreOK, NEW f \in Files, NEW p \in Parts, Edit(f, p)
  PROVE  DocsOK' /\ StoreOK'
<1>1. UNCHANGED <<documents, store, cache, changed>>
  BY DEF Edit, Put, resolution
<1> QED
  BY <1>1, DocumentsStay, StoreStays

LEMMA WritesKeep ==
  ASSUME DocsOK, StoreOK, NEW d \in Docs, NEW p \in Parts, NEW append \in BOOLEAN,
         \/ Write(d, p, append)
         \/ \E f \in Files : Save(d, f, p, append) \/ WriteFile(d, f, p, append)
  PROVE  DocsOK' /\ StoreOK'
<1>1. UNCHANGED <<store, cache, changed>>
  BY DEF Write, Save, WriteFile, Put, resolution
<1>2. CASE UNCHANGED documents
  BY <1>1, <1>2, DocumentsStay, StoreStays
<1>3. ASSUME NEW f \in Files, Becomes(d, f)
      PROVE  DocsOK' /\ StoreOK'
  BY <1>1, <1>3, BecomesKeeps, StoreStays
<1> QED
  BY <1>2, <1>3 DEF Write, Save, WriteFile

LEMMA ReadsKeep ==
  ASSUME DocsOK, StoreOK, NEW d \in Docs,
         ReadRaw(d) \/ ReadContent(d) \/ ReadDocId(d) \/ DelFile(d)
         \/ \E f \in Files : SetFilepath(d, f)
  PROVE  DocsOK' /\ StoreOK'
<1>1. UNCHANGED <<store, cache, changed>>
  BY DEF ReadRaw, ReadContent, ReadDocId, DelFile, SetFilepath, Elsewhere, resolution
<1>2. StoreOK'
  BY <1>1, StoreStays
<1>3. CASE ReadRaw(d)
  BY <1>2, <1>3, ReadRawKeeps DEF ReadRaw
<1>4. CASE ReadContent(d)
  BY <1>2, <1>4, ReadContentKeeps DEF ReadContent
<1>5. CASE ReadDocId(d)
  BY <1>2, <1>5, ReadToIdKeeps DEF ReadDocId
<1>6. CASE DelFile(d)
  BY <1>2, <1>6, DocumentsStay DEF DelFile
<1>7. ASSUME NEW f \in Files, SetFilepath(d, f)
      PROVE  DocsOK' /\ StoreOK'
  BY <1>2, <1>7, BecomesKeeps DEF SetFilepath
<1> QED
  BY <1>3, <1>4, <1>5, <1>6, <1>7

LEMMA LoadKeeps ==
  ASSUME DocsOK, StoreOK, NEW d \in Docs, Load(d)
  PROVE  DocsOK' /\ StoreOK'
<1>1. DocsOK'
  BY ReadToIdKeeps DEF Load
<1>2. UNCHANGED cache
  BY DEF Load, resolution
<1>3. CASE UNCHANGED <<store, changed>>
  BY <1>1, <1>2, <1>3, StoreStays
<1>4. CASE StoreBecomes(With(DocIdNow(d), ContentNow(d)))
  <2>1. IsOn(With(DocIdNow(d), ContentNow(d)), Keys)
    BY WithIsOn DEF StoreOK
  <2> QED
    BY <1>1, <1>2, <1>4, <2>1, RegisteringKeeps
<1> QED
  BY <1>3, <1>4 DEF Load

LEMMA UnloadKeeps ==
  ASSUME DocsOK, StoreOK, NEW d \in Docs, Unload(d)
  PROVE  DocsOK' /\ StoreOK'
<1>1. DocsOK'
  BY TouchKeeps DEF Unload
<1>2. UNCHANGED cache
  BY DEF Unload, resolution
<1>3. CASE UNCHANGED <<store, changed>>
  BY <1>1, <1>2, <1>3, StoreStays
<1>4. CASE StoreBecomes(With(OwnId[d], Nothing))
  <2>1. IsOn(With(OwnId[d], Nothing), Keys)
    BY WithIsOn DEF StoreOK
  <2> QED
    BY <1>1, <1>2, <1>4, <2>1, RegisteringKeeps
<1> QED
  BY <1>3, <1>4 DEF Unload

LEMMA RegisterKeeps ==
  ASSUME DocsOK, StoreOK, NEW c, NEW u, RegisterDoc(c, u) \/ UnregisterDoc(u)
  PROVE  DocsOK' /\ StoreOK'
<1>1. DocsOK'
  BY DocumentsStay DEF RegisterDoc, UnregisterDoc
<1>2. PICK e : StoreBecomes(With(u, e)) /\ UNCHANGED cache
  BY DEF RegisterDoc, UnregisterDoc, resolution
<1>3. IsOn(With(u, e), Keys)
  BY WithIsOn DEF StoreOK
<1>4. StoreOK'
  BY <1>2, <1>3, RegisteringKeeps
<1> QED
  BY <1>1, <1>4

LEMMA ResolutionKeeps ==
  ASSUME DocsOK, StoreOK, NEW u \in Asked,
         \/ Resolve(u) \/ \E schema \in Parsed \cup {Nothing} : Create(u, schema)
         \/ \E remote \in BOOLEAN : ResolveUri(u, remote) \/ Forget(u, remote)
  PROVE  DocsOK' /\ StoreOK'
<1>1. CASE Resolve(u)
  BY <1>1, RegisterKeeps DEF Resolve
<1>2. ASSUME NEW schema, Create(u, schema)
      PROVE  DocsOK' /\ StoreOK'
  <2>1. DocsOK'
    BY <1>2, DocumentsStay DEF Create
  <2>2. StoreBecomes(With(u, Referrer(u, schema))) \/ UNCHANGED <<store, changed>>
    BY <1>2 DEF Create
  <2>3. UNCHANGED cache /\ IsOn(With(u, Referrer(u, schema)), Keys)
    BY <1>2, WithIsOn DEF Create, StoreOK
  <2> QED
    BY <2>1, <2>2, <2>3, StoreStays, RegisteringKeeps
<1>3. ASSUME NEW remote \in BOOLEAN, ResolveUri(u, remote)
      PROVE  DocsOK' /\ StoreOK'
  BY <1>3, DocumentsStay, RememberKeeps DEF ResolveUri
<1>4. ASSUME NEW remote \in BOOLEAN, Forget(u, remote)
      PROVE  DocsOK' /\ StoreOK'
  BY <1>4, DocumentsStay, ForgetKeeps DEF Forget
<1> QED
  BY <1>1, <1>2, <1>3, <1>4

LEMMA Step == IInv /\ [Next]_vars => IInv'
<1> SUFFICES ASSUME DocsOK, StoreOK, [Next]_vars
             PROVE  DocsOK' /\ StoreOK'
  BY Parted, PartedNext
<1>1. CASE UNCHANGED vars
  BY <1>1, DocumentsStay, StoreStays DEF vars, resolution
<1>2. ASSUME NEW f \in Files, LoadSchemaFile(f) \/ \E p \in Parts : Edit(f, p)
      PROVE  DocsOK' /\ StoreOK'
  BY <1>2, RegisterKeeps, FilesKeep DEF LoadSchemaFile
<1>3. ASSUME NEW d \in Docs,
             \/ ReadRaw(d) \/ ReadContent(d) \/ ReadDocId(d) \/ DelFile(d)
             \/ \E f \in Files : SetFilepath(d, f)
      PROVE  DocsOK' /\ StoreOK'
  BY <1>3, ReadsKeep
<1>4. ASSUME NEW d \in Docs, Load(d) \/ Unload(d)
      PROVE  DocsOK' /\ StoreOK'
  BY <1>4, LoadKeeps, UnloadKeeps
<1>5. ASSUME NEW d \in Docs, NEW p \in Parts, NEW append \in BOOLEAN,
             \/ Write(d, p, append)
             \/ \E f \in Files : Save(d, f, p, append) \/ WriteFile(d, f, p, append)
      PROVE  DocsOK' /\ StoreOK'
  BY <1>5, WritesKeep
<1>6. ASSUME NEW u \in Uris, UnregisterDoc(u) \/ \E p \in Parsed : RegisterDoc(p, u)
      PROVE  DocsOK' /\ StoreOK'
  BY <1>6, RegisterKeeps
<1>7. ASSUME NEW u \in Asked,
             \/ Resolve(u) \/ \E schema \in Parsed \cup {Nothing} : Create(u, schema)
             \/ \E remote \in BOOLEAN : ResolveUri(u, remote) \/ Forget(u, remote)
      PROVE  DocsOK' /\ StoreOK'
  BY <1>7, ResolutionKeeps
<1> QED
  BY <1>1, <1>2, <1>3, <1>4, <1>5, <1>6, <1>7 DEF Next

-----------------------------------------------------------------------------
(* The theorems                                                                *)

\* The inductive invariant: what an object keeps of its file, and what the
\* cache of resolve_doc answers, in every reachable state.
THEOREM Invariance == Spec => []IInv
BY Start, Step, PTL DEF Spec

\* What a document object keeps of its file is of one piece, whatever files
\* are written, removed or set, and whatever is registered (Document and File).
THEOREM ObjectsAgree == Spec => []DocumentsAgree
BY Invariance, InvariantsFollow, PTL

\* A cached answer of resolve_doc is stale only after the registration of its
\* uri changed (UriResolver.resolve_doc).
THEOREM AnswersAreCurrent == Spec => []CacheIsCurrent
BY Invariance, InvariantsFollow, PTL

\* Only what registers, or fetches from the web, puts a document in the store:
\* a document that was unregistered stays so, whatever caches and resolvers
\* remember of it, while another is registered; in an empty store, a resolver
\* puts the one document it is made for (UriResolver.create, resolve_doc,
\* Document.unload).
THEOREM OnlyRegistrationRegisters == Spec => ResolvingRegistersNothing
<1> DEFINE Registers ==
             \A k \in Keys : store'[k] # store[k] /\ store'[k] # Nothing =>
               \/ registered'
               \/ IsEmpty /\ (\A j \in Keys \ {k} : store'[j] = Nothing) /\ copy' = Nothing
<1>1. ASSUME IInv, [Next]_vars
      PROVE  [Registers]_vars
  <2>1. IsOn(store, Keys)
    BY <1>1 DEF IInv, Shaped
  <2>2. ASSUME NEW u, StoreBecomes(With(u, Nothing))
        PROVE  Registers
    BY <2>1, <2>2 DEF StoreBecomes, With, IsOn
  <2>3. CASE UNCHANGED vars
    BY <2>3
  <2>4. CASE UNCHANGED store \/ registered'
    BY <2>4
  <2>5. ASSUME NEW d \in Docs, Load(d) \/ Unload(d)
        PROVE  Registers
    BY <2>2, <2>4, <2>5 DEF Load, Unload
  <2>6. ASSUME NEW u, UnregisterDoc(u)
        PROVE  Registers
    BY <2>2, <2>6 DEF UnregisterDoc
  <2>7. ASSUME NEW u, NEW c, RegisterDoc(c, u)
        PROVE  Registers
    BY <2>4, <2>7 DEF RegisterDoc
  <2>8. ASSUME NEW u \in Asked, NEW remote \in BOOLEAN, ResolveUri(u, remote)
        PROVE  Registers
    <3>1. registered' = (store' # store)
      BY <2>8 DEF ResolveUri, Remember, StoreBecomes
    <3> QED
      BY <2>4, <3>1
  <2>9. ASSUME NEW u \in Asked, NEW remote \in BOOLEAN, Forget(u, remote)
        PROVE  Registers
    BY <2>4, <2>9 DEF Forget
  <2>10. ASSUME NEW u \in Asked, NEW schema, Create(u, schema)
         PROVE  Registers
    <3>1. CASE Registered(u) = Nothing /\ IsEmpty
      <4>1. StoreBecomes(With(u, Referrer(u, schema))) /\ copy' = Nothing
        BY <2>10, <3>1 DEF Create
      <4>2. \A k \in Keys : k # KeyOf[u] => store'[k] = Nothing
        BY <2>1, <3>1, <4>1 DEF StoreBecomes, With, IsOn, IsEmpty
      <4>3. \A k \in Keys : store'[k] # store[k] /\ store'[k] # Nothing => k = KeyOf[u]
        BY <4>2
      <4> QED
        BY <3>1, <4>1, <4>2, <4>3
    <3>2. CASE ~(Registered(u) = Nothing /\ IsEmpty)
      BY <2>4, <2>10, <3>2 DEF Create
    <3> QED
      BY <3>1, <3>2
  <2>11. ASSUME NEW d \in Docs,
                \/ ReadRaw(d) \/ ReadContent(d) \/ ReadDocId(d) \/ DelFile(d)
                \/ \E f \in Files : SetFilepath(d, f)
         PROVE  Registers
    BY <2>4, <2>11 DEF ReadRaw, ReadContent, ReadDocId, DelFile, SetFilepath, Elsewhere
  <2>12. ASSUME NEW f \in Files, NEW p \in Parts, NEW append \in BOOLEAN, Put(f, p, append)
         PROVE  Registers
    BY <2>4, <2>12 DEF Put
  <2>13. ASSUME NEW d \in Docs, NEW p \in Parts, NEW append \in BOOLEAN,
                \/ Write(d, p, append)
                \/ \E f \in Files : Save(d, f, p, append) \/ WriteFile(d, f, p, append)
         PROVE  Registers
    <3>1. CASE Write(d, p, append)
      <4>1. UNCHANGED store
        BY <3>1 DEF Write, Put
      <4> QED
        BY <2>4, <4>1
    <3> QED
      BY <2>12, <2>13, <3>1 DEF Save, WriteFile
  <2> QED
    <3> HIDE DEF Registers
    <3>1. ASSUME NEW f \in Files, LoadSchemaFile(f) \/ \E p \in Parts : Edit(f, p)
          PROVE  Registers
      BY <2>7, <2>12, <3>1 DEF LoadSchemaFile, Edit
    <3>2. ASSUME NEW u \in Uris, UnregisterDoc(u) \/ \E p \in Parsed : RegisterDoc(p, u)
          PROVE  Registers
      BY <2>6, <2>7, <3>2
    <3>3. ASSUME NEW u \in Asked,
                 \/ Resolve(u) \/ \E schema \in Parsed \cup {Nothing} : Create(u, schema)
                 \/ \E remote \in BOOLEAN : ResolveUri(u, remote) \/ Forget(u, remote)
          PROVE  Registers
      BY <2>7, <2>8, <2>9, <2>10, <3>3 DEF Resolve
    <3> QED
      BY <1>1, <2>3, <2>5, <2>11, <2>13, <3>1, <3>2, <3>3 DEF Next
<1> QED
  BY <1>1, Invariance, PTL DEF Spec, ResolvingRegistersNothing

=============================================================================
