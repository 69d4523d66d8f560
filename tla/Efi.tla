-------------------------------- MODULE Efi --------------------------------
(***************************************************************************)
(* EFI variables (libeos-payg/efi.c): the library, its storage in efivarfs *)
(* and its storage for tests.  A call is a sequence of system calls, and   *)
(* the power may fail between two of them, or while a variable is written. *)
(*                                                                         *)
(* The kernel shows a variable of the NVRAM as a file.  A file that was    *)
(* created and could not be written has no content until the next boot,    *)
(* and is not in the NVRAM.  Each file is created immutable.               *)
(***************************************************************************)
EXTENDS Integers, FiniteSets

CONSTANTS
  Vars,             \* full names of variables
  PaygVars,         \* those that start with EOSPAYG_
  Values, SizeOf,   \* contents, and their length in bytes
  Absent, Empty,    \* no file; a file without content
  NoName,           \* a free entry of fake_vars
  FAKE_VAR_COUNT,
  Storages,         \* subset of {"efivarfs", "test"}: the flags of eospayg_efi_init()
  SysResults        \* subset of {"ok", "err"}: of calls that may always fail

ASSUME EfiAssumption ==
  /\ PaygVars \subseteq Vars
  /\ SizeOf \in [Values -> Nat \ {0}]
  /\ Absent \notin Values /\ Empty \notin Values \cup {Absent} /\ NoName \notin Vars
  /\ FAKE_VAR_COUNT \in Nat
  /\ Storages \subseteq {"efivarfs", "test"}
  /\ SysResults \subseteq {"ok", "err"}

VARIABLES
  storage,      \* which storage eospayg_efi_init() is asked for
  nvram,        \* the firmware's variables
  files,        \* what the kernel shows of them
  immutable,    \* files with FS_IMMUTABLE_FL
  fake_vars,    \* the storage for tests
  efi,          \* efi is not NULL
  efi_fd,       \* efi_fd is not -1
  post_pivot,
  pc,           \* the system call that is next, or "idle"
  call,         \* the call of the library that is in progress
  known         \* observed: the contents each variable may have, as far as
                \* the results of the calls tell

kernel == <<nvram, files, immutable>>
library == <<efi, efi_fd, post_pivot>>
vars == <<storage, kernel, fake_vars, library, pc, call, known>>

Contents == Values \cup {Absent}
Slots == 1 .. FAKE_VAR_COUNT
Steps == {"idle", "clear", "open", "write", "unlink", "test"}

Calls == [op : {"write", "delete"}, name : PaygVars, content : Contents, allow_overwrite : BOOLEAN]

NoCall == [op |-> "none", name |-> NoName, content |-> Absent, allow_overwrite |-> FALSE]

FreeSlot == [name |-> NoName, content |-> Absent]

Init ==
  /\ storage \in Storages
  /\ nvram \in [Vars -> Contents]
  /\ storage = "test" => nvram = [v \in Vars |-> Absent]   \* not used
  /\ files = nvram
  /\ immutable = Vars
  /\ fake_vars = [i \in Slots |-> FreeSlot]
  /\ efi = FALSE /\ efi_fd = FALSE /\ post_pivot = FALSE
  /\ pc = "idle"
  /\ call = NoCall
  /\ known = [v \in Vars |-> {nvram[v]}]
-----------------------------------------------------------------------------
(* The storage for tests: each loop over fake_vars stops at the first hit. *)

IsFirst(i, slots) == i \in slots /\ \A j \in slots : i <= j

Named(entries, name) == {i \in Slots : entries[i].name = name}

(* A bug: the loop stops at a free entry. *)
TargetsInOrder(name) == Named(fake_vars, name) \cup Named(fake_vars, NoName)

(* test_write() looks for a free entry and for the name in one loop.       *)
Targets(name) ==
  IF Named(fake_vars, name) # {} THEN Named(fake_vars, name) ELSE Named(fake_vars, NoName)

FakeContent(entries, name) ==
  IF Named(entries, name) = {}
  THEN Absent
  ELSE entries[CHOOSE i \in Slots : IsFirst(i, Named(entries, name))].content

(* The variables as they are stored. *)
Store == IF storage = "test" THEN [v \in Vars |-> FakeContent(fake_vars, v)] ELSE nvram
-----------------------------------------------------------------------------
(* The client's calls. *)

(* eospayg_efi_init(): the operations are set before efivarfs is opened,   *)
(* so that a second call returns TRUE although the first one failed.       *)
EfiInit(result) ==
  /\ pc = "idle" /\ ~efi
  /\ efi' = TRUE
  /\ efi_fd' = (storage = "efivarfs" /\ result = "ok")
  /\ UNCHANGED <<storage, kernel, fake_vars, post_pivot, pc, call, known>>

RootPivot ==
  /\ pc = "idle"
  /\ post_pivot' = TRUE
  /\ UNCHANGED <<storage, kernel, fake_vars, efi, efi_fd, pc, call, known>>

(* A bug: the root pivot is not looked at. *)
AlwaysAllowOverwrite == TRUE

AllowOverwrite == ~post_pivot

Calling(op, v, content, overwrite, step) ==
  /\ pc = "idle" /\ efi
  /\ call' = [op |-> op, name |-> v, content |-> content, allow_overwrite |-> overwrite]
  /\ pc' = IF storage = "test" THEN "test" ELSE step
  /\ UNCHANGED <<storage, kernel, fake_vars, library, known>>

(* eospayg_efi_var_write() *)
VarWrite(v, content) ==
  Calling("write", v, content, AllowOverwrite, IF AllowOverwrite THEN "clear" ELSE "open")

(* eospayg_efi_var_overwrite(), where it does not return an error at once. *)
VarOverwrite(v, content) ==
  /\ ~post_pivot
  /\ Calling("write", v, content, TRUE, "clear")

(* eospayg_efi_var_delete() and eospayg_efi_var_delete_fullname(), which   *)
(* refuses other names.                                                    *)
VarDelete(v) == v \in PaygVars /\ Calling("delete", v, Absent, FALSE, "clear")

Learns(v, contents) == known' = [known EXCEPT ![v] = contents]

(* What may be read of v: efivarfs_read() refuses a file that is too short *)
(* and test_read() a name it does not know.                                *)
Readable(v) ==
  IF storage = "test" THEN {FakeContent(fake_vars, v)} \cap Values
  ELSE IF efi_fd THEN {files[v]} \cap Values ELSE {}

(* eospayg_efi_var_read_fullname(), where it returns the content. *)
VarRead(v, expectedSize) ==
  /\ pc = "idle" /\ efi /\ ~post_pivot
  /\ \E content \in Readable(v) :
       /\ expectedSize \in {-1, SizeOf[content]}
       /\ Learns(v, {content})
  /\ UNCHANGED <<storage, kernel, fake_vars, library, pc, call>>

(* The read fails with G_IO_ERROR_NOT_FOUND; in the storage for tests the  *)
(* error is another one.                                                   *)
VarReadNotFound(v) ==
  /\ pc = "idle" /\ efi /\ ~post_pivot
  /\ storage = "efivarfs" /\ efi_fd /\ files[v] = Absent
  /\ Learns(v, {Absent})
  /\ UNCHANGED <<storage, kernel, fake_vars, library, pc, call>>

(* The answers that eospayg_efi_var_exists() may give.  Any error of       *)
(* faccessat(), and an efivarfs that could not be opened, make it FALSE.   *)
(* The storage for tests compares the short name with the full ones that   *)
(* it has stored, and never finds it.                                      *)
VarExists(v) ==
  IF storage = "test" THEN {FALSE}
  ELSE {efi_fd /\ files[v] # Absent} \cup IF "err" \in SysResults THEN {FALSE} ELSE {}
-----------------------------------------------------------------------------
(* The system calls of a call in progress. *)

Returns(result) ==
  /\ pc' = "idle"
  /\ call' = NoCall
  /\ IF result = "ok" THEN Learns(call.name, {call.content}) ELSE UNCHANGED known

(* clear_immutable(): its error is not looked at. *)
ClearImmutable(result) ==
  /\ pc = "clear"
  /\ immutable' = IF efi_fd /\ files[call.name] # Absent /\ result = "ok"
                  THEN immutable \ {call.name} ELSE immutable
  /\ pc' = IF call.op = "write" THEN "open" ELSE "unlink"
  /\ UNCHANGED <<storage, nvram, files, fake_vars, library, call, known>>

CanOpen ==
  /\ efi_fd
  /\ files[call.name] # Absent => call.allow_overwrite /\ call.name \notin immutable

(* openat() with O_CREAT and, where nothing is overwritten, O_EXCL. *)
Open ==
  /\ pc = "open" /\ CanOpen
  /\ files' = [files EXCEPT ![call.name] = IF @ = Absent THEN Empty ELSE @]
  /\ immutable' = IF files[call.name] = Absent THEN immutable \cup {call.name} ELSE immutable
  /\ pc' = "write"
  /\ UNCHANGED <<storage, nvram, fake_vars, library, call, known>>

OpenFails ==
  /\ pc = "open"
  /\ ~CanOpen \/ "err" \in SysResults
  /\ Returns("err")
  /\ UNCHANGED <<storage, kernel, fake_vars, library>>

Stores(content) ==
  /\ nvram' = [nvram EXCEPT ![call.name] = content]
  /\ files' = [files EXCEPT ![call.name] = content]

(* write() replaces the whole content, or fails and changes nothing. *)
WriteFile(result) ==
  /\ pc = "write"
  /\ IF result = "ok" THEN Stores(call.content) ELSE UNCHANGED <<nvram, files>>
  /\ Returns(result)
  /\ UNCHANGED <<storage, immutable, fake_vars, library>>

CanUnlink == efi_fd /\ nvram[call.name] # Absent /\ call.name \notin immutable

Unlink ==
  /\ pc = "unlink" /\ CanUnlink
  /\ Stores(Absent)
  /\ Returns("ok")
  /\ UNCHANGED <<storage, immutable, fake_vars, library>>

UnlinkFails ==
  /\ pc = "unlink"
  /\ ~CanUnlink \/ "err" \in SysResults
  /\ Returns("err")
  /\ UNCHANGED <<storage, kernel, fake_vars, library>>

(* test_write() does not look at allow_overwrite. *)
TestWrite ==
  /\ pc = "test" /\ call.op = "write"
  /\ \E i \in Slots :
       /\ IsFirst(i, Targets(call.name))
       /\ fake_vars' = [fake_vars EXCEPT ![i] = [name |-> call.name, content |-> call.content]]
  /\ Returns("ok")
  /\ UNCHANGED <<storage, kernel, library>>

TestWriteFails ==
  /\ pc = "test" /\ call.op = "write" /\ Targets(call.name) = {}
  /\ Returns("err")
  /\ UNCHANGED <<storage, kernel, fake_vars, library>>

TestDelete ==
  /\ pc = "test" /\ call.op = "delete"
  /\ \E i \in Slots :
       /\ IsFirst(i, Named(fake_vars, call.name))
       /\ fake_vars' = [fake_vars EXCEPT ![i] = FreeSlot]
  /\ Returns("ok")
  /\ UNCHANGED <<storage, kernel, library>>

TestDeleteFails ==
  /\ pc = "test" /\ call.op = "delete" /\ Named(fake_vars, call.name) = {}
  /\ Returns("err")
  /\ UNCHANGED <<storage, kernel, fake_vars, library>>

(* eospayg_efi_clear(), for tests only. *)
TestClear ==
  /\ pc = "idle" /\ efi /\ storage = "test"
  /\ fake_vars' = [i \in Slots |-> FreeSlot]
  /\ known' = [v \in Vars |-> {Absent}]
  /\ UNCHANGED <<storage, kernel, library, pc, call>>
-----------------------------------------------------------------------------
(* The system call that changes the variable may be done at a power        *)
(* failure, and its result is lost.                                        *)
ChangedAtPowerFailure ==
  /\ pc = "write" \/ (pc = "unlink" /\ CanUnlink)
  /\ nvram' = [nvram EXCEPT ![call.name] = call.content]

Reboot ==
  /\ storage = "efivarfs"
  /\ UNCHANGED nvram \/ ChangedAtPowerFailure
  /\ files' = nvram'
  /\ immutable' = Vars
  /\ efi' = FALSE /\ efi_fd' = FALSE /\ post_pivot' = FALSE
  /\ pc' = "idle"
  /\ known' = IF pc \in {"write", "unlink"}
              THEN [known EXCEPT ![call.name] = @ \cup {call.content}] ELSE known
  /\ call' = NoCall
  /\ UNCHANGED <<storage, fake_vars>>

ClientCalls ==
  \/ \E result \in SysResults : EfiInit(result)
  \/ RootPivot
  \/ \E v \in PaygVars, content \in Values : VarWrite(v, content) \/ VarOverwrite(v, content)
  \/ \E v \in PaygVars : VarDelete(v)
  \/ \E v \in Vars : \E size \in {-1} \cup {SizeOf[c] : c \in Values} : VarRead(v, size)
  \/ \E v \in Vars : VarReadNotFound(v)

EfivarfsSteps ==
  \/ \E result \in SysResults : ClearImmutable(result) \/ WriteFile(result)
  \/ Open
  \/ OpenFails
  \/ Unlink
  \/ UnlinkFails

TestSteps ==
  \/ TestWrite
  \/ TestWriteFails
  \/ TestDelete
  \/ TestDeleteFails
  \/ TestClear

Next == ClientCalls \/ EfivarfsSteps \/ TestSteps \/ Reboot

Spec == Init /\ [][Next]_vars
-----------------------------------------------------------------------------
EfiTypeOK ==
  /\ storage \in Storages
  /\ nvram \in [Vars -> Contents]
  /\ files \in [Vars -> Contents \cup {Empty}]
  /\ immutable \subseteq Vars
  /\ fake_vars \in [Slots -> [name : Vars \cup {NoName}, content : Contents]]
  /\ efi \in BOOLEAN /\ efi_fd \in BOOLEAN /\ post_pivot \in BOOLEAN
  /\ pc \in Steps
  /\ IF pc = "idle" THEN call = NoCall ELSE call \in Calls
  /\ known \in [Vars -> SUBSET Contents]

(* The results of reads, writes and deletes tell the truth: whatever       *)
(* fails, wherever the power fails and however the entries of the tests'   *)
(* storage are reused, a variable has one of the contents that they have   *)
(* told of.  Nothing is learnt from the answers of VarExists.              *)
StoreIsAsReported == \A v \in Vars : Store[v] \in known[v]

NvramOfEfi == INSTANCE Nvram WITH
  store <- Store, pivoted <- post_pivot /\ storage = "efivarfs"

(* Each step keeps the promises of Nvram: after the root pivot no step, or *)
(* power failure, gives an existing variable another value.                *)
ImplementsNvram == NvramOfEfi!Spec

(* The call tells whether the variable exists (efi.c:442): false of the    *)
(* storage for tests, which never finds one, and of efivarfs, where an     *)
(* error of faccessat() is taken for a missing variable and a file whose   *)
(* first write failed for one that is stored.                              *)
ExistsIsTrue == efi => \A v \in PaygVars : VarExists(v) = {Store[v] # Absent}
=============================================================================
