------------------------------ MODULE EfiProofs ------------------------------
(***************************************************************************)
(* The EFI variables for any variables, contents and size of the storage   *)
(* for tests: the results of reads, writes and deletes tell the truth of   *)
(* what is stored, and the library keeps the promises of Nvram.            *)
(***************************************************************************)
EXTENDS Efi, TLAPS

(* The kernel shows what is in the NVRAM, apart from files whose first     *)
(* write has not been done.                                                *)
FilesShowNvram ==
  \A v \in Vars : files[v] = nvram[v] \/ (files[v] = Empty /\ nvram[v] = Absent)

(* A call in progress is at a step of its operation, and was allowed.      *)
CallIsAllowed ==
  pc # "idle" =>
    /\ pc = "test" <=> storage = "test"
    /\ call.op = "write" => call.content \in Values
    /\ call.op = "delete" => call.content = Absent
    /\ pc \in {"open", "write"} => call.op = "write"
    /\ pc = "unlink" => call.op = "delete"
    /\ call.allow_overwrite => ~post_pivot

(* A file that is open for a write may be overwritten, or is new. *)
OpenFileIsNew == pc = "write" => call.allow_overwrite \/ files[call.name] = Empty

(* Each variable has one entry in the storage for tests, with a content. *)
EntriesAreUnique(entries) ==
  /\ \A i, j \in Slots :
       entries[i].name = entries[j].name => i = j \/ entries[i].name = NoName
  /\ \A i \in Slots :
       entries[i].name # NoName => entries[i].name \in PaygVars /\ entries[i].content \in Values

IInv ==
  /\ EfiTypeOK
  /\ FilesShowNvram
  /\ CallIsAllowed
  /\ OpenFileIsNew
  /\ EntriesAreUnique(fake_vars)
  /\ StoreIsAsReported
-----------------------------------------------------------------------------
(* The storage for tests as a function of the names. *)

LEMMA ContentOfEntry ==
  ASSUME NEW entries, EntriesAreUnique(entries), NEW v \in Vars,
         NEW i \in Slots, entries[i].name = v
  PROVE  FakeContent(entries, v) = entries[i].content
<1>1. v # NoName
  BY EfiAssumption
<1>2. \A j \in Slots : j \in Named(entries, v) <=> j = i
  BY <1>1 DEF EntriesAreUnique, Named
<1>3. IsFirst(i, Named(entries, v)) /\ \A j \in Slots : IsFirst(j, Named(entries, v)) => j = i
  BY <1>2 DEF IsFirst, Slots, Named
<1>4. (CHOOSE j \in Slots : IsFirst(j, Named(entries, v))) = i
  BY <1>3
<1>5. Named(entries, v) # {}
  BY <1>2
<1> QED BY <1>4, <1>5 DEF FakeContent

LEMMA ContentOfNoEntry ==
  ASSUME NEW entries, NEW v \in Vars, \A i \in Slots : entries[i].name # v
  PROVE  FakeContent(entries, v) = Absent
BY DEF FakeContent, Named

LEMMA SameStore ==
  ASSUME UNCHANGED <<storage, nvram, fake_vars>>
  PROVE  Store' = Store
BY DEF Store, FakeContent, Named

LEMMA StoreOfNvram ==
  ASSUME storage = "efivarfs"
  PROVE  Store = nvram
BY DEF Store

LEMMA StoreOfTest ==
  ASSUME storage = "test"
  PROVE  Store = [v \in Vars |-> FakeContent(fake_vars, v)]
BY DEF Store

(* The entry that test_write() takes keeps the names unique. *)
LEMMA TestWriteStores ==
  ASSUME IInv, TestWrite
  PROVE  /\ EntriesAreUnique(fake_vars')
         /\ fake_vars' \in [Slots -> [name : Vars \cup {NoName}, content : Contents]]
         /\ Store' = [Store EXCEPT ![call.name] = call.content]
<1>1. PICK i \in Slots :
        /\ IsFirst(i, Targets(call.name))
        /\ fake_vars' = [fake_vars EXCEPT ![i] = [name |-> call.name, content |-> call.content]]
  BY DEF TestWrite
<1>2. /\ storage = "test" /\ storage' = "test"
      /\ call.name \in PaygVars /\ call.name \in Vars /\ call.name # NoName
      /\ call.content \in Values
  BY EfiAssumption DEF TestWrite, IInv, CallIsAllowed, EfiTypeOK, Calls
<1>3. fake_vars \in [Slots -> [name : Vars \cup {NoName}, content : Contents]]
  BY DEF IInv, EfiTypeOK
<1>4. /\ \A j \in Slots : j # i => fake_vars'[j] = fake_vars[j]
      /\ fake_vars'[i].name = call.name /\ fake_vars'[i].content = call.content
  BY <1>1, <1>3
<1>5. fake_vars' \in [Slots -> [name : Vars \cup {NoName}, content : Contents]]
  BY <1>1, <1>2, <1>3 DEF Contents
<1>6. fake_vars[i].name \in {call.name, NoName}
  BY <1>1 DEF IsFirst, Targets, Named
<1>7. \A j \in Slots : fake_vars[j].name = call.name => j = i
  <2> SUFFICES ASSUME NEW j \in Slots, fake_vars[j].name = call.name
               PROVE  j = i
    OBVIOUS
  <2>1. Named(fake_vars, call.name) # {}
    BY DEF Named
  <2>2. fake_vars[i].name = call.name
    BY <1>1, <2>1 DEF IsFirst, Targets, Named
  <2> QED BY <1>2, <2>2 DEF IInv, EntriesAreUnique
<1>8. EntriesAreUnique(fake_vars')
  BY <1>2, <1>4, <1>7 DEF IInv, EntriesAreUnique, Slots
<1>9. ASSUME NEW v \in Vars
      PROVE  FakeContent(fake_vars', v) = IF v = call.name THEN call.content ELSE FakeContent(fake_vars, v)
  <2>1. CASE v = call.name
    <3>1. fake_vars'[i].name = v
      BY <1>4, <2>1
    <3>2. FakeContent(fake_vars', v) = fake_vars'[i].content
      BY <1>8, <3>1, ContentOfEntry
    <3> QED BY <1>4, <2>1, <3>2
  <2>2. CASE v # call.name /\ \E j \in Slots : fake_vars[j].name = v
    <3>1. PICK j \in Slots : fake_vars[j].name = v
      BY <2>2
    <3>2. j # i
      BY <1>6, <2>2, <3>1, EfiAssumption
    <3>3. FakeContent(fake_vars, v) = fake_vars[j].content
      BY <3>1, ContentOfEntry DEF IInv
    <3>4. FakeContent(fake_vars', v) = fake_vars'[j].content
      BY <1>4, <1>8, <3>1, <3>2, ContentOfEntry
    <3> QED BY <1>4, <2>2, <3>2, <3>3, <3>4
  <2>3. CASE v # call.name /\ ~\E j \in Slots : fake_vars[j].name = v
    <3>1. FakeContent(fake_vars, v) = Absent
      BY <2>3, ContentOfNoEntry
    <3>2. \A j \in Slots : fake_vars'[j].name # v
      BY <1>4, <2>3
    <3>3. FakeContent(fake_vars', v) = Absent
      BY <3>2, ContentOfNoEntry
    <3> QED BY <2>3, <3>1, <3>3
  <2> QED BY <2>1, <2>2, <2>3
<1>10. Store = [v \in Vars |-> FakeContent(fake_vars, v)] /\ Store' = [v \in Vars |-> FakeContent(fake_vars', v)]
  BY <1>2 DEF Store
<1> QED BY <1>2, <1>5, <1>8, <1>9, <1>10

LEMMA TestDeleteRemoves ==
  ASSUME IInv, TestDelete
  PROVE  /\ EntriesAreUnique(fake_vars')
         /\ fake_vars' \in [Slots -> [name : Vars \cup {NoName}, content : Contents]]
         /\ Store' = [Store EXCEPT ![call.name] = Absent]
<1>1. PICK i \in Slots :
        /\ IsFirst(i, Named(fake_vars, call.name))
        /\ fake_vars' = [fake_vars EXCEPT ![i] = FreeSlot]
  BY DEF TestDelete
<1>2. /\ storage = "test" /\ storage' = "test"
      /\ call.name \in Vars /\ call.name # NoName
  BY EfiAssumption DEF TestDelete, IInv, CallIsAllowed, EfiTypeOK, Calls
<1>3. fake_vars \in [Slots -> [name : Vars \cup {NoName}, content : Contents]]
  BY DEF IInv, EfiTypeOK
<1>4. /\ \A j \in Slots : j # i => fake_vars'[j] = fake_vars[j]
      /\ fake_vars'[i].name = NoName
  BY <1>1, <1>3 DEF FreeSlot
<1>5. fake_vars' \in [Slots -> [name : Vars \cup {NoName}, content : Contents]]
  BY <1>1, <1>3 DEF Contents, FreeSlot
<1>6. fake_vars[i].name = call.name
  BY <1>1 DEF IsFirst, Named
<1>7. EntriesAreUnique(fake_vars')
  BY <1>4 DEF IInv, EntriesAreUnique, Slots
<1>8. ASSUME NEW v \in Vars
      PROVE  FakeContent(fake_vars', v) = IF v = call.name THEN Absent ELSE FakeContent(fake_vars, v)
  <2>1. CASE v = call.name
    <3>1. \A j \in Slots : fake_vars'[j].name # v
      <4> SUFFICES ASSUME NEW j \in Slots, fake_vars'[j].name = v
                   PROVE  FALSE
        OBVIOUS
      <4>1. j # i
        BY <1>2, <1>4, <2>1
      <4>2. fake_vars[j].name = fake_vars[i].name
        BY <1>4, <1>6, <2>1, <4>1
      <4> QED BY <1>2, <1>6, <4>1, <4>2 DEF IInv, EntriesAreUnique
    <3> QED BY <2>1, <3>1, ContentOfNoEntry
  <2>2. CASE v # call.name /\ \E j \in Slots : fake_vars[j].name = v
    <3>1. PICK j \in Slots : fake_vars[j].name = v
      BY <2>2
    <3>2. j # i
      BY <1>6, <2>2, <3>1
    <3>3. FakeContent(fake_vars, v) = fake_vars[j].content
      BY <3>1, ContentOfEntry DEF IInv
    <3>4. FakeContent(fake_vars', v) = fake_vars'[j].content
      BY <1>4, <1>7, <3>1, <3>2, ContentOfEntry
    <3> QED BY <1>4, <2>2, <3>2, <3>3, <3>4
  <2>3. CASE v # call.name /\ ~\E j \in Slots : fake_vars[j].name = v
    <3>1. FakeContent(fake_vars, v) = Absent
      BY <2>3, ContentOfNoEntry
    <3>2. \A j \in Slots : fake_vars'[j].name # v
      BY <1>2, <1>4, <2>3, EfiAssumption
    <3>3. FakeContent(fake_vars', v) = Absent
      BY <3>2, ContentOfNoEntry
    <3> QED BY <2>3, <3>1, <3>3
  <2> QED BY <2>1, <2>2, <2>3
<1>9. Store = [v \in Vars |-> FakeContent(fake_vars, v)] /\ Store' = [v \in Vars |-> FakeContent(fake_vars', v)]
  BY <1>2 DEF Store
<1> QED BY <1>2, <1>5, <1>7, <1>8, <1>9

LEMMA TestClearRemoves ==
  ASSUME IInv, TestClear
  PROVE  /\ EntriesAreUnique(fake_vars')
         /\ fake_vars' \in [Slots -> [name : Vars \cup {NoName}, content : Contents]]
         /\ Store' = [v \in Vars |-> Absent]
<1>1. \A i \in Slots : fake_vars'[i] = FreeSlot
  BY DEF TestClear
<1>2. \A v \in Vars : FakeContent(fake_vars', v) = Absent
  BY <1>1, ContentOfNoEntry, EfiAssumption DEF FreeSlot
<1>3. Store' = [v \in Vars |-> FakeContent(fake_vars', v)]
  BY DEF TestClear, Store
<1> QED BY <1>1, <1>2, <1>3 DEF TestClear, EntriesAreUnique, FreeSlot, Contents
-----------------------------------------------------------------------------
LEMMA StoreType ==
  ASSUME EfiTypeOK, EntriesAreUnique(fake_vars)
  PROVE  Store \in [Vars -> Contents]
<1>1. CASE storage = "test"
  <2>1. ASSUME NEW v \in Vars
        PROVE  FakeContent(fake_vars, v) \in Contents
    <3>1. CASE \E i \in Slots : fake_vars[i].name = v
      BY <3>1, ContentOfEntry DEF EfiTypeOK
    <3>2. CASE ~\E i \in Slots : fake_vars[i].name = v
      BY <3>2, ContentOfNoEntry DEF Contents
    <3> QED BY <3>1, <3>2
  <2> QED BY <1>1, <2>1, StoreOfTest
<1>2. CASE storage # "test"
  BY <1>2 DEF Store, EfiTypeOK
<1> QED BY <1>1, <1>2

LEMMA InitIInv == Init => IInv
<1> SUFFICES ASSUME Init
             PROVE  IInv
  OBVIOUS
<1>1. EfiTypeOK
  BY EfiAssumption DEF Init, EfiTypeOK, Contents, FreeSlot, Steps
<1>2. FilesShowNvram /\ CallIsAllowed /\ OpenFileIsNew
  BY DEF Init, FilesShowNvram, CallIsAllowed, OpenFileIsNew
<1>3. EntriesAreUnique(fake_vars)
  BY DEF Init, EntriesAreUnique, FreeSlot
<1>4. Store = nvram
  <2>1. \A v \in Vars : FakeContent(fake_vars, v) = Absent
    BY ContentOfNoEntry, EfiAssumption DEF Init, FreeSlot
  <2>2. CASE storage = "test"
    BY <2>1, <2>2, StoreOfTest DEF Init
  <2>3. CASE storage # "test"
    BY <2>3 DEF Store
  <2> QED BY <2>2, <2>3
<1>5. StoreIsAsReported
  BY <1>4 DEF Init, StoreIsAsReported
<1> QED BY <1>1, <1>2, <1>3, <1>5 DEF IInv

(* The client's calls change nothing that is stored, and learn the truth. *)
LEMMA ClientCallsIInv ==
  ASSUME IInv, ClientCalls
  PROVE  IInv' /\ Store' = Store /\ storage' = storage
                /\ (post_pivot' = post_pivot \/ post_pivot' = TRUE)
<1>1. ASSUME NEW op \in {"write", "delete"}, NEW v \in PaygVars, NEW content \in Contents,
             NEW overwrite \in BOOLEAN, NEW step \in {"clear", "open"},
             Calling(op, v, content, overwrite, step),
             op = "write" => content \in Values,
             op = "delete" => content = Absent /\ step = "clear",
             overwrite => ~post_pivot
      PROVE  IInv' /\ UNCHANGED <<storage, nvram, fake_vars, post_pivot>>
  <2>1. UNCHANGED <<storage, kernel, fake_vars, library, known>>
    BY <1>1 DEF Calling
  <2>2. call' = [op |-> op, name |-> v, content |-> content, allow_overwrite |-> overwrite]
    BY <1>1 DEF Calling
  <2>3. pc' = IF storage = "test" THEN "test" ELSE step
    BY <1>1 DEF Calling
  <2>4. EfiTypeOK'
    <3>1. call' \in Calls
      BY <2>2 DEF Calls
    <3>2. pc' \in Steps /\ pc' # "idle"
      BY <2>3 DEF Steps
    <3> QED BY <2>1, <3>1, <3>2 DEF IInv, EfiTypeOK, kernel, library, Steps, Slots, Contents
  <2>5. FilesShowNvram' /\ EntriesAreUnique(fake_vars')
    BY <2>1 DEF IInv, FilesShowNvram, EntriesAreUnique, kernel
  <2>6. CallIsAllowed' /\ OpenFileIsNew'
    BY <1>1, <2>1, <2>2, <2>3 DEF CallIsAllowed, OpenFileIsNew, kernel, library
  <2>7. StoreIsAsReported'
    BY <2>1, SameStore DEF IInv, StoreIsAsReported, kernel
  <2> QED BY <2>1, <2>4, <2>5, <2>6, <2>7 DEF IInv, kernel, library
<1>2. ASSUME pc = "idle", UNCHANGED <<storage, kernel, fake_vars, pc, call>>,
             efi' \in BOOLEAN, efi_fd' \in BOOLEAN, post_pivot' \in BOOLEAN,
             known' \in [Vars -> SUBSET Contents],
             \A v \in Vars : Store[v] \in known'[v]
      PROVE  IInv'
  <2>1. EfiTypeOK'
    BY <1>2 DEF IInv, EfiTypeOK, kernel, Steps, Slots, Contents
  <2>2. FilesShowNvram' /\ CallIsAllowed' /\ OpenFileIsNew' /\ EntriesAreUnique(fake_vars')
    BY <1>2 DEF IInv, FilesShowNvram, CallIsAllowed, OpenFileIsNew, EntriesAreUnique, kernel
  <2>3. Store' = Store
    BY <1>2, SameStore DEF kernel
  <2>4. StoreIsAsReported'
    BY <1>2, <2>3 DEF StoreIsAsReported
  <2> QED BY <2>1, <2>2, <2>4 DEF IInv
<1>3. \A v \in Vars : Store[v] \in known[v]
  BY DEF IInv, StoreIsAsReported
<1>4. known \in [Vars -> SUBSET Contents]
  BY DEF IInv, EfiTypeOK
<1>5. CASE \E result \in SysResults : EfiInit(result)
  <2>1. PICK result \in SysResults : EfiInit(result)
    BY <1>5
  <2>2. efi' \in BOOLEAN /\ efi_fd' \in BOOLEAN /\ post_pivot' \in BOOLEAN
    BY <2>1 DEF EfiInit, IInv, EfiTypeOK
  <2> QED BY <1>2, <1>3, <1>4, <2>1, <2>2, SameStore DEF EfiInit, kernel
<1>6. CASE RootPivot
  <2>1. efi' \in BOOLEAN /\ efi_fd' \in BOOLEAN /\ post_pivot' \in BOOLEAN
    BY <1>6 DEF RootPivot, IInv, EfiTypeOK
  <2> QED BY <1>2, <1>3, <1>4, <1>6, <2>1, SameStore DEF RootPivot, kernel
<1>7. CASE \E v \in PaygVars, content \in Values : VarWrite(v, content) \/ VarOverwrite(v, content)
  <2>1. PICK v \in PaygVars, content \in Values : VarWrite(v, content) \/ VarOverwrite(v, content)
    BY <1>7
  <2>2. \E overwrite \in BOOLEAN, step \in {"clear", "open"} :
          Calling("write", v, content, overwrite, step) /\ (overwrite => ~post_pivot)
    <3>1. post_pivot \in BOOLEAN
      BY DEF IInv, EfiTypeOK
    <3> QED BY <2>1, <3>1 DEF VarWrite, VarOverwrite, AllowOverwrite
  <2> QED BY <1>1, <2>2, SameStore DEF Contents
<1>8. CASE \E v \in PaygVars : VarDelete(v)
  BY <1>1, <1>8, SameStore DEF VarDelete, Contents
<1>9. ASSUME NEW v \in Vars, NEW content, content = Store[v], Learns(v, {content}),
             pc = "idle", UNCHANGED <<storage, kernel, fake_vars, library, pc, call>>
      PROVE  IInv' /\ Store' = Store
  <2>1. content \in Contents
    BY <1>9, StoreType DEF IInv
  <2>2. known' \in [Vars -> SUBSET Contents] /\ \A w \in Vars : Store[w] \in known'[w]
    BY <1>3, <1>4, <1>9, <2>1 DEF Learns
  <2>3. efi' \in BOOLEAN /\ efi_fd' \in BOOLEAN /\ post_pivot' \in BOOLEAN
    BY <1>9 DEF library, IInv, EfiTypeOK
  <2> QED BY <1>2, <1>9, <2>2, <2>3, SameStore DEF kernel
<1>10. CASE \E v \in Vars : \E size \in {-1} \cup {SizeOf[c] : c \in Values} : VarRead(v, size)
  <2>1. PICK v \in Vars, size \in {-1} \cup {SizeOf[c] : c \in Values} : VarRead(v, size)
    BY <1>10
  <2>2. PICK content \in Readable(v) : Learns(v, {content})
    BY <2>1 DEF VarRead
  <2>3. content = Store[v]
    <3>1. CASE storage = "test"
      BY <2>2, <3>1 DEF Readable, Store
    <3>2. CASE storage # "test"
      BY <2>2, <3>2, EfiAssumption DEF Readable, Store, IInv, FilesShowNvram
    <3> QED BY <3>1, <3>2
  <2> QED BY <1>9, <2>1, <2>2, <2>3 DEF VarRead, library
<1>11. CASE \E v \in Vars : VarReadNotFound(v)
  <2>1. PICK v \in Vars : VarReadNotFound(v)
    BY <1>11
  <2>2. Store[v] = Absent
    BY <2>1, EfiAssumption DEF VarReadNotFound, Store, IInv, FilesShowNvram
  <2> QED BY <1>9, <2>1, <2>2 DEF VarReadNotFound, library
<1>12. \A v \in PaygVars : v \in Vars
  BY EfiAssumption
<1> QED BY <1>5, <1>6, <1>7, <1>8, <1>10, <1>11, <1>12 DEF ClientCalls

(* What a step that changes the store makes of it. *)
Changes(content) ==
  /\ call.name \in PaygVars
  /\ Store' = [Store EXCEPT ![call.name] = content]
  /\ content = call.content
  /\ content \in Values => ~(post_pivot /\ storage = "efivarfs") \/ Store[call.name] = Absent

(* A step of a call in progress. *)
LEMMA CallInProgress ==
  ASSUME IInv, pc # "idle"
  PROVE  /\ call \in Calls /\ call.name \in PaygVars /\ call.name \in Vars
         /\ call.content \in Contents
         /\ pc # "test" => storage = "efivarfs"
         /\ pc = "test" => storage = "test"
BY EfiAssumption DEF IInv, EfiTypeOK, Calls, CallIsAllowed

LEMMA ReturnKeepsTypes ==
  ASSUME IInv, pc # "idle", NEW result, Returns(result)
  PROVE  /\ pc' = "idle" /\ call' = NoCall
         /\ known' \in [Vars -> SUBSET Contents]
         /\ CallIsAllowed' /\ OpenFileIsNew'
         /\ result = "ok" => known' = [known EXCEPT ![call.name] = {call.content}]
         /\ result # "ok" => known' = known
BY CallInProgress DEF IInv, EfiTypeOK, Returns, Learns, CallIsAllowed, OpenFileIsNew

(* A step of efivarfs that leaves what is stored as it is. *)
LEMMA EfivarfsKeepsStore ==
  ASSUME IInv, pc \in {"clear", "open", "write", "unlink"},
         UNCHANGED <<storage, nvram, fake_vars, library>>,
         files' \in [Vars -> Contents \cup {Empty}], immutable' \subseteq Vars,
         FilesShowNvram', CallIsAllowed', OpenFileIsNew',
         pc' \in Steps, IF pc' = "idle" THEN call' = NoCall ELSE call' \in Calls, known' = known
  PROVE  IInv' /\ Store' = Store
<1>1. EfiTypeOK'
  BY DEF IInv, EfiTypeOK, library, Slots, Contents, Calls
<1>2. EntriesAreUnique(fake_vars')
  BY DEF IInv
<1>3. Store' = Store
  BY SameStore
<1> QED BY <1>1, <1>2, <1>3 DEF IInv, StoreIsAsReported

(* One that ends a call with a change of the NVRAM. *)
LEMMA EfivarfsChangesStore ==
  ASSUME IInv, pc \in {"write", "unlink"}, Stores(call.content), Returns("ok"),
         UNCHANGED <<storage, immutable, fake_vars, library>>
  PROVE  IInv' /\ Changes(call.content)
<1>1. /\ call.name \in PaygVars /\ call.name \in Vars /\ call.content \in Contents
      /\ storage = "efivarfs" /\ storage' = "efivarfs"
  BY CallInProgress
<1>2. /\ pc' = "idle" /\ call' = NoCall /\ CallIsAllowed' /\ OpenFileIsNew'
      /\ known' = [known EXCEPT ![call.name] = {call.content}]
      /\ known' \in [Vars -> SUBSET Contents]
  BY ReturnKeepsTypes
<1>3. /\ nvram' = [nvram EXCEPT ![call.name] = call.content]
      /\ files' = [files EXCEPT ![call.name] = call.content]
  BY DEF Stores
<1>4. nvram \in [Vars -> Contents] /\ files \in [Vars -> Contents \cup {Empty}]
  BY DEF IInv, EfiTypeOK
<1>5. nvram' \in [Vars -> Contents] /\ files' \in [Vars -> Contents \cup {Empty}]
  BY <1>1, <1>3, <1>4
<1>6. EfiTypeOK'
  BY <1>1, <1>2, <1>5 DEF IInv, EfiTypeOK, library, Steps, Slots, Contents
<1>7. FilesShowNvram'
  BY <1>1, <1>3, <1>4 DEF IInv, FilesShowNvram
<1>8. EntriesAreUnique(fake_vars')
  BY DEF IInv
<1>9. Store = nvram /\ Store' = nvram'
  BY <1>1 DEF Store
<1>10. StoreIsAsReported'
  BY <1>1, <1>2, <1>3, <1>4, <1>9 DEF IInv, EfiTypeOK, StoreIsAsReported
<1>11. call.content \in Values => ~post_pivot \/ nvram[call.name] = Absent
  <2>1. CASE pc = "write"
    BY <1>1, <2>1, EfiAssumption
       DEF IInv, CallIsAllowed, OpenFileIsNew, FilesShowNvram, EfiTypeOK, Contents
  <2>2. CASE pc = "unlink"
    BY <2>2, EfiAssumption DEF IInv, CallIsAllowed
  <2> QED BY <2>1, <2>2
<1> QED BY <1>1, <1>2, <1>3, <1>6, <1>7, <1>8, <1>9, <1>10, <1>11 DEF IInv, Changes

LEMMA EfivarfsStepsIInv ==
  ASSUME IInv, EfivarfsSteps
  PROVE  /\ IInv'
         /\ Store' = Store \/ Changes(call.content)
         /\ UNCHANGED <<storage, post_pivot>>
<1>0. /\ files \in [Vars -> Contents \cup {Empty}] /\ immutable \subseteq Vars
      /\ FilesShowNvram /\ known \in [Vars -> SUBSET Contents]
  BY DEF IInv, EfiTypeOK
<1>1. ASSUME NEW result \in SysResults, ClearImmutable(result)
      PROVE  IInv' /\ Store' = Store
  <2>1. /\ pc = "clear" /\ call' = call /\ known' = known
        /\ UNCHANGED <<storage, nvram, files, fake_vars, library>>
        /\ pc' = IF call.op = "write" THEN "open" ELSE "unlink"
    BY <1>1 DEF ClearImmutable
  <2>2. immutable' \subseteq Vars
    BY <1>0, <1>1 DEF ClearImmutable
  <2>3. call \in Calls /\ storage = "efivarfs"
    BY <2>1, CallInProgress
  <2>4. CallIsAllowed' /\ OpenFileIsNew' /\ FilesShowNvram'
    BY <1>0, <2>1, <2>3 DEF IInv, CallIsAllowed, OpenFileIsNew, FilesShowNvram, library, Calls
  <2> QED BY <1>0, <2>1, <2>2, <2>3, <2>4, EfivarfsKeepsStore DEF Steps
<1>2. ASSUME Open
      PROVE  IInv' /\ Store' = Store
  <2>1. /\ pc = "open" /\ CanOpen /\ call' = call /\ known' = known /\ pc' = "write"
        /\ UNCHANGED <<storage, nvram, fake_vars, library>>
        /\ files' = [files EXCEPT ![call.name] = IF @ = Absent THEN Empty ELSE @]
    BY <1>2 DEF Open
  <2>2. call \in Calls /\ call.name \in Vars /\ storage = "efivarfs"
    BY <2>1, CallInProgress
  <2>3. immutable' \subseteq Vars
    BY <1>0, <1>2, <2>2 DEF Open
  <2>4. files' \in [Vars -> Contents \cup {Empty}] /\ FilesShowNvram'
    BY <1>0, <2>1, <2>2, EfiAssumption DEF FilesShowNvram, Contents
  <2>5. CallIsAllowed'
    BY <2>1, <2>2 DEF IInv, CallIsAllowed, library
  <2>6. OpenFileIsNew'
    BY <1>0, <2>1, <2>2, EfiAssumption DEF OpenFileIsNew, CanOpen, Contents
  <2> QED BY <2>1, <2>2, <2>3, <2>4, <2>5, <2>6, EfivarfsKeepsStore DEF Steps
<1>3. ASSUME pc \in {"open", "write", "unlink"}, Returns("err"),
             UNCHANGED <<storage, kernel, fake_vars, library>>
      PROVE  IInv' /\ Store' = Store
  <2>1. pc' = "idle" /\ call' = NoCall /\ known' = known /\ CallIsAllowed' /\ OpenFileIsNew'
    BY <1>3, ReturnKeepsTypes
  <2>2. FilesShowNvram'
    BY <1>0, <1>3 DEF FilesShowNvram, kernel
  <2> QED BY <1>0, <1>3, <2>1, <2>2, EfivarfsKeepsStore DEF Steps, kernel
<1>4. ASSUME OpenFails \/ UnlinkFails
      PROVE  IInv' /\ Store' = Store
  BY <1>3, <1>4 DEF OpenFails, UnlinkFails, library
<1>5. ASSUME NEW result \in SysResults, WriteFile(result)
      PROVE  IInv' /\ (Store' = Store \/ Changes(call.content))
  <2>1. CASE result = "ok"
    BY <1>5, <2>1, EfivarfsChangesStore DEF WriteFile
  <2>2. CASE result # "ok"
    <3>1. result = "err"
      BY <2>2, EfiAssumption
    <3> QED BY <1>3, <1>5, <3>1 DEF WriteFile, kernel
  <2> QED BY <2>1, <2>2
<1>6. ASSUME Unlink
      PROVE  IInv' /\ Changes(call.content)
  <2>1. call.content = Absent
    BY <1>6 DEF Unlink, IInv, CallIsAllowed
  <2> QED BY <1>6, <2>1, EfivarfsChangesStore DEF Unlink, library
<1>7. UNCHANGED <<storage, post_pivot>>
  BY DEF EfivarfsSteps, ClearImmutable, WriteFile, Open, OpenFails, Unlink, UnlinkFails, library
<1> QED BY <1>1, <1>2, <1>4, <1>5, <1>6, <1>7 DEF EfivarfsSteps

LEMMA TestStepsIInv ==
  ASSUME IInv, TestSteps
  PROVE  /\ IInv'
         /\ \/ Store' = Store
            \/ Changes(call.content)
            \/ Store' = [v \in Vars |-> IF v \in PaygVars THEN Absent ELSE Store[v]]
         /\ UNCHANGED <<storage, post_pivot>>
<1>0. /\ UNCHANGED <<storage, kernel, library>> /\ storage = "test"
      /\ FilesShowNvram /\ known \in [Vars -> SUBSET Contents]
  BY CallInProgress DEF TestSteps, TestWrite, TestWriteFails, TestDelete, TestDeleteFails,
     TestClear, IInv, EfiTypeOK
<1>1. FilesShowNvram'
  BY <1>0 DEF FilesShowNvram, kernel
<1>2. ASSUME EntriesAreUnique(fake_vars'),
             fake_vars' \in [Slots -> [name : Vars \cup {NoName}, content : Contents]],
             pc' = "idle", call' = NoCall, known' \in [Vars -> SUBSET Contents],
             CallIsAllowed', OpenFileIsNew', StoreIsAsReported'
      PROVE  IInv'
  <2>1. EfiTypeOK'
    BY <1>0, <1>2 DEF IInv, EfiTypeOK, kernel, library, Steps, Slots, Contents
  <2> QED BY <1>1, <1>2, <2>1 DEF IInv
<1>3. ASSUME TestWrite \/ TestDelete
      PROVE  IInv' /\ Changes(call.content)
  <2>1. /\ call.name \in PaygVars /\ call.name \in Vars /\ call.content \in Contents
        /\ pc # "idle"
    BY <1>3, CallInProgress DEF TestWrite, TestDelete
  <2>2. /\ pc' = "idle" /\ call' = NoCall /\ CallIsAllowed' /\ OpenFileIsNew'
        /\ known' = [known EXCEPT ![call.name] = {call.content}]
        /\ known' \in [Vars -> SUBSET Contents]
    BY <1>3, <2>1, ReturnKeepsTypes DEF TestWrite, TestDelete
  <2>3. /\ EntriesAreUnique(fake_vars')
        /\ fake_vars' \in [Slots -> [name : Vars \cup {NoName}, content : Contents]]
        /\ Store' = [Store EXCEPT ![call.name] = call.content]
    <3>1. CASE TestWrite
      BY <3>1, TestWriteStores
    <3>2. CASE TestDelete
      <4>1. call.content = Absent
        BY <2>1, <3>2 DEF TestDelete, IInv, CallIsAllowed
      <4> QED BY <3>2, <4>1, TestDeleteRemoves
    <3> QED BY <1>3, <3>1, <3>2
  <2>4. Store \in [Vars -> Contents]
    BY StoreType DEF IInv
  <2>5. StoreIsAsReported'
    BY <1>0, <2>1, <2>2, <2>3, <2>4 DEF IInv, StoreIsAsReported
  <2>6. Changes(call.content)
    BY <1>0, <2>1, <2>3 DEF Changes
  <2> QED BY <1>2, <2>2, <2>3, <2>5, <2>6
<1>4. ASSUME TestWriteFails \/ TestDeleteFails
      PROVE  IInv' /\ Store' = Store
  <2>1. pc # "idle" /\ Returns("err") /\ fake_vars' = fake_vars
    BY <1>4 DEF TestWriteFails, TestDeleteFails
  <2>2. pc' = "idle" /\ call' = NoCall /\ known' = known /\ CallIsAllowed' /\ OpenFileIsNew'
    BY <2>1, ReturnKeepsTypes
  <2>3. Store' = Store
    BY <1>0, <2>1, SameStore DEF kernel
  <2>4. StoreIsAsReported'
    BY <2>2, <2>3 DEF IInv, StoreIsAsReported
  <2>5. /\ EntriesAreUnique(fake_vars')
        /\ fake_vars' \in [Slots -> [name : Vars \cup {NoName}, content : Contents]]
    BY <2>1 DEF IInv, EfiTypeOK
  <2> QED BY <1>0, <1>2, <2>2, <2>3, <2>4, <2>5
<1>5. ASSUME TestClear
      PROVE  IInv' /\ Store' = [v \in Vars |-> IF v \in PaygVars THEN Absent ELSE Store[v]]
  <2>1. /\ EntriesAreUnique(fake_vars')
        /\ fake_vars' \in [Slots -> [name : Vars \cup {NoName}, content : Contents]]
        /\ Store' = [v \in Vars |-> Absent]
    BY <1>5, TestClearRemoves
  <2>2. \A v \in Vars : v \notin PaygVars => Store[v] = Absent
    <3> SUFFICES ASSUME NEW v \in Vars, v \notin PaygVars
                 PROVE  Store[v] = Absent
      OBVIOUS
    <3>1. \A i \in Slots : fake_vars[i].name # v
      BY EfiAssumption DEF IInv, EntriesAreUnique
    <3> QED BY <1>0, <3>1, ContentOfNoEntry, StoreOfTest
  <2>3. pc' = "idle" /\ pc = "idle" /\ call' = call /\ known' = [v \in Vars |-> {Absent}]
    BY <1>5 DEF TestClear
  <2>4. CallIsAllowed' /\ OpenFileIsNew' /\ call' = NoCall
    BY <2>3 DEF CallIsAllowed, OpenFileIsNew, IInv, EfiTypeOK
  <2>5. known' \in [Vars -> SUBSET Contents] /\ StoreIsAsReported'
    BY <2>1, <2>3 DEF StoreIsAsReported, Contents
  <2> QED BY <1>2, <2>1, <2>2, <2>3, <2>4, <2>5
<1> QED BY <1>0, <1>3, <1>4, <1>5 DEF TestSteps, library

(* A power failure leaves what was stored, or what was to be stored next.  *)
LEMMA RebootIInv ==
  ASSUME IInv, Reboot
  PROVE  /\ IInv'
         /\ storage' = storage /\ ~post_pivot'
         /\ Store' = Store \/ Changes(call.content)
<1>1. /\ storage = "efivarfs" /\ storage' = "efivarfs" /\ fake_vars' = fake_vars
      /\ files' = nvram' /\ immutable' = Vars /\ efi' = FALSE /\ efi_fd' = FALSE
      /\ post_pivot' = FALSE /\ pc' = "idle" /\ call' = NoCall
      /\ nvram' = nvram \/ ChangedAtPowerFailure
      /\ known' = IF pc \in {"write", "unlink"}
                  THEN [known EXCEPT ![call.name] = @ \cup {call.content}] ELSE known
  BY DEF Reboot
<1>2. /\ nvram \in [Vars -> Contents] /\ known \in [Vars -> SUBSET Contents]
      /\ \A v \in Vars : nvram[v] \in known[v]
  BY <1>1, StoreOfNvram DEF IInv, EfiTypeOK, StoreIsAsReported
<1>3. pc # "idle" => call.name \in PaygVars /\ call.name \in Vars /\ call.content \in Contents
  BY CallInProgress
<1>4. ChangedAtPowerFailure =>
        /\ pc \in {"write", "unlink"}
        /\ nvram' = [nvram EXCEPT ![call.name] = call.content]
  BY DEF ChangedAtPowerFailure
<1>5. /\ nvram' \in [Vars -> Contents] /\ known' \in [Vars -> SUBSET Contents]
      /\ \A v \in Vars : nvram'[v] \in known'[v]
  BY <1>1, <1>2, <1>3, <1>4
<1>6. EfiTypeOK'
  BY <1>1, <1>5 DEF IInv, EfiTypeOK, Steps, Slots, Contents
<1>7. /\ FilesShowNvram' /\ CallIsAllowed' /\ OpenFileIsNew' /\ EntriesAreUnique(fake_vars')
  BY <1>1 DEF IInv, FilesShowNvram, CallIsAllowed, OpenFileIsNew
<1>8. Store = nvram /\ Store' = nvram'
  BY <1>1 DEF Store
<1>9. StoreIsAsReported'
  BY <1>5, <1>8 DEF StoreIsAsReported
<1>10. ChangedAtPowerFailure => Changes(call.content)
  <2> SUFFICES ASSUME ChangedAtPowerFailure
               PROVE  Changes(call.content)
    OBVIOUS
  <2>1. call.content \in Values => ~post_pivot \/ nvram[call.name] = Absent
    <3>1. CASE pc = "write"
      BY <1>3, <3>1, EfiAssumption
         DEF IInv, CallIsAllowed, OpenFileIsNew, FilesShowNvram, EfiTypeOK, Contents
    <3>2. CASE pc = "unlink"
      BY <3>2, EfiAssumption DEF IInv, CallIsAllowed
    <3> QED BY <1>4, <3>1, <3>2
  <2> QED BY <1>3, <1>4, <1>8, <2>1 DEF Changes
<1> QED BY <1>1, <1>6, <1>7, <1>8, <1>9, <1>10 DEF IInv

LEMMA NextIInv == IInv /\ [Next]_vars => IInv'
<1> SUFFICES ASSUME IInv, [Next]_vars
             PROVE  IInv'
  OBVIOUS
<1>1. CASE UNCHANGED vars
  <2>1. Store' = Store
    BY <1>1, SameStore DEF vars, kernel
  <2> QED BY <1>1, <2>1
    DEF vars, kernel, library, IInv, EfiTypeOK, FilesShowNvram, CallIsAllowed, OpenFileIsNew,
        EntriesAreUnique, StoreIsAsReported, Slots, Contents, Steps, Calls
<1> QED BY <1>1, ClientCallsIInv, EfivarfsStepsIInv, TestStepsIInv, RebootIInv DEF Next

(* Whatever fails, the results of reads, writes and deletes tell the truth *)
(* about what is stored.                                                   *)
THEOREM StoreIsReported == Spec => []StoreIsAsReported
<1>1. IInv => StoreIsAsReported
  BY DEF IInv
<1> QED BY <1>1, InitIInv, NextIInv, PTL DEF Spec
-----------------------------------------------------------------------------
LEMMA InitImplements == Init => NvramOfEfi!Init
<1> SUFFICES ASSUME Init
             PROVE  NvramOfEfi!Init
  OBVIOUS
<1>1. Store \in [Vars -> Contents]
  BY InitIInv, StoreType DEF IInv
<1>2. ~post_pivot
  BY DEF Init
<1>3. (post_pivot /\ storage = "efivarfs") = FALSE
  BY <1>2
<1> QED BY <1>1, <1>3 DEF NvramOfEfi!Init, NvramOfEfi!TypeOK, Contents

(* A change of a variable is one that Nvram allows. *)
LEMMA ChangeImplements ==
  ASSUME IInv, NEW content, content \in Contents, Changes(content),
         UNCHANGED <<storage, post_pivot>>
  PROVE  NvramOfEfi!Next
<1>1. UNCHANGED (post_pivot /\ storage = "efivarfs")
  OBVIOUS
<1>2. CASE content \in Values
  BY <1>1, <1>2 DEF Changes, NvramOfEfi!Next, NvramOfEfi!Put
<1>3. CASE content = Absent
  BY <1>1, <1>3 DEF Changes, NvramOfEfi!Next, NvramOfEfi!Remove
<1> QED BY <1>2, <1>3 DEF Contents

LEMMA StepImplements ==
  ASSUME IInv, [Next]_vars
  PROVE  [NvramOfEfi!Next]_<<Store, post_pivot /\ storage = "efivarfs">>
<1> DEFINE pivoted == post_pivot /\ storage = "efivarfs"
<1>0. post_pivot \in BOOLEAN
  BY DEF IInv, EfiTypeOK
<1>1. CASE ClientCalls
  <2>1. Store' = Store /\ storage' = storage /\ (post_pivot' = post_pivot \/ post_pivot' = TRUE)
    BY <1>1, ClientCallsIInv
  <2>2. pivoted' = pivoted \/ pivoted' = TRUE
    BY <2>1
  <2> QED BY <2>1, <2>2 DEF NvramOfEfi!Next, NvramOfEfi!Pivot
<1>2. CASE EfivarfsSteps
  <2>1. pc # "idle"
    BY <1>2 DEF EfivarfsSteps, ClearImmutable, WriteFile, Open, OpenFails, Unlink, UnlinkFails
  <2>2. call.content \in Contents
    BY <2>1, CallInProgress
  <2> QED BY <1>2, <2>2, EfivarfsStepsIInv, ChangeImplements
<1>3. CASE TestSteps
  <2>1. /\ \/ Store' = Store
           \/ Changes(call.content)
           \/ Store' = [v \in Vars |-> IF v \in PaygVars THEN Absent ELSE Store[v]]
        /\ UNCHANGED <<storage, post_pivot>>
    BY <1>3, TestStepsIInv
  <2>2. call.content \in Contents
    BY CallInProgress DEF IInv, EfiTypeOK, NoCall, Contents
  <2>3. CASE Store' = [v \in Vars |-> IF v \in PaygVars THEN Absent ELSE Store[v]]
    BY <2>1, <2>3 DEF NvramOfEfi!Next, NvramOfEfi!Clear
  <2> QED BY <2>1, <2>2, <2>3, ChangeImplements
<1>4. CASE Reboot
  <2>1. storage' = storage /\ ~post_pivot' /\ (Store' = Store \/ Changes(call.content))
    BY <1>4, RebootIInv
  <2>2. pivoted' = FALSE
    BY <2>1
  <2>3. call.content \in Contents
    BY CallInProgress DEF IInv, EfiTypeOK, NoCall, Contents
  <2>4. CASE Store' = Store
    BY <2>2, <2>4 DEF NvramOfEfi!Next, NvramOfEfi!Reboot
  <2>5. CASE Changes(call.content) /\ call.content \in Values
    BY <2>2, <2>5 DEF NvramOfEfi!Next, NvramOfEfi!Reboot, Changes
  <2>6. CASE Changes(call.content) /\ call.content = Absent
    BY <2>2, <2>6 DEF NvramOfEfi!Next, NvramOfEfi!Reboot, Changes
  <2> QED BY <2>1, <2>3, <2>4, <2>5, <2>6 DEF Contents
<1>5. CASE UNCHANGED vars
  BY <1>5, SameStore DEF vars, kernel, library
<1> QED BY <1>1, <1>2, <1>3, <1>4, <1>5 DEF Next

(* Every step of the library, of its storages and of a power failure keeps *)
(* the promises of Nvram.                                                  *)
THEOREM EfiImplementsNvram == Spec => ImplementsNvram
<1>1. IInv /\ [Next]_vars => [NvramOfEfi!Next]_<<Store, post_pivot /\ storage = "efivarfs">>
  BY StepImplements
<1>2. Spec => NvramOfEfi!Spec
  BY <1>1, InitIInv, NextIInv, InitImplements, PTL DEF Spec, NvramOfEfi!Spec
<1> QED BY <1>2 DEF ImplementsNvram
=============================================================================
