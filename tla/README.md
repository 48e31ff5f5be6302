# A TLA+ model of usbsas

usbsas copies files from an untrusted USB device to a fresh file system on
another device, to a network destination or to a command. The work is split
between small sandboxed processes that talk through pipes. This directory models
those processes and their protocol, the web server in front of them and the FAT
library behind them, model-checks them with TLC on small instances, and proves
the safety of a session, of the sector copy and of the web server for every
instance with TLAPS.

Paths are relative to `src/`; `main.rs` alone is `usbsas-usbsas/src/main.rs`.

## 1. The system

```
browser - web server --- usbsas --+-- usbdev, identificator, filter, cmdexec
          (or another             +-- scsi2files --- dev2scsi --- source device
           client)                +-- files2tar  --> archive  --> tar2files, analyzer, uploader
                                  +-- files2fs   --> image    --> fs2dev --- destination device
```

| part | state | operations | interacts with |
|------|-------|------------|----------------|
| usbsas | its `State`, the `locked` flag of three children, the report | the requests of the client, a transfer, wipe, disk image, end | every child, the client |
| files2tar | the archive, the entry being written | unlock, NewFile, WriteFile, EndFile, Close, End | archive |
| tar2files | index of the archive | unlock, GetAttr, ReadFile, ReadDir, End | archive |
| files2fs | the image, its bit vector of written sectors | SetFsInfos, NewFile, WriteFile, EndFile, Close, BitVec, ImgDisk, End | image, FAT library |
| fs2dev | the bit vector, the device | unlock, DevSize, LoadBitVec, StartCopy, Wipe, End | image, destination |
| scsi2files | opened device, partition | OpenDevice, Partitions, OpenPartition, GetAttr, ReadDir, ReadFile, ReadSectors, End | dev2scsi |
| dev2scsi | opened device | unlock, Partitions, ReadSectors, End | source device |
| analyzer, uploader | archive handle | Analyze; Upload | remote servers |
| cmdexec, identificator, filter, usbdev | none, or the list of devices | Exec, PostCopyExec; Id; FilterPaths; Devices | commands, libusb |
| web server | the pipes of usbsas under a mutex, one thread per transfer, one stream of progress | HTTP requests, reset | usbsas, browser |
| FAT library | FAT, bitmap, directory tables, the open file | open, mkdir, write, close, unlink | image |

Every process is one thread: it blocks in `recv()`, handles one message, writes
its responses and blocks again. A parent that makes a call blocks for the
answer. The hard behaviours, and the properties that go with them:

* **The protocol has no numbering.** A response too many is taken for the answer
  to the next request (`Lockstep`, `OneAnswer`, `InStep`, `OneFinalAnswer`).
* **Three children wait for raw bytes before their first message**, different ones
  for each way a session can go (`UnlockedOnce`).
* **A session ends only when all eleven children have exited** (`RequestsAnswered`,
  `EndExits`, `Replies`).
* **Failures half way.** A file whose attributes cannot be read is reported and the
  transfer goes on. A read that fails comes after the header: it leaves files2tar
  in the middle of an entry, the next NewFile, or Close, is refused and the transfer
  fails. On the way to the new file system a file that fails is reported and the
  transfer goes on (`TarReadComplete`, `ImageComplete`, `Accounted`).
* **Reads that fail unnoticed.** `ff_disk_read` (`ff/src/ff_extern.rs:36-47`), which
  serves FAT and exFAT sources, drops the error of a failed read and reports
  success with a buffer of zeros. Such a file is copied as zeros, and a directory
  ends early; neither usbsas nor the report can know (`Accounted`, section 4).
* **One process reads what another writes** (archive, image), ordered only by the
  calls of usbsas (`TarReadComplete`, `DeviceOnlyOnDemand`, `GiveUpLeavesDevice`).
* **No file that the filter rejected, or the analyzer called dirty, enters the new
  file system** (`OnlyClean`). Uploads and commands get the archive, which is not
  analyzed.
* **Sector arithmetic**: rounding, chunking, cutting (`FlaggedCopied`, `ImageOnDisk`,
  `StartsInFile`, `NothingOldLeft`, `GroupsBounded`).
* **Children die** at any point (run `crash`, and every theorem on a session).
* **Handlers and transfer threads of the web server share one pair of pipes**, and
  `out_dev` outlives the session it was set in (`InStep`, `ChosenDestination`,
  `HandlersReturn`, `StreamDelivers`).
* **A volume that fills up and fragments** (`ChainsSound`, `EntriesFound`,
  `ReadsBack`, `ImplementsFileStore`, `MkdirUndone`).

`PROJECT.json` lists all the parts, those not modelled included, and the hazards
by source line.

## 2. Modules

| module | models |
|--------|--------|
| `Processes` | pipes, messages, the steps every child shares (`usbsas-comm`, `usbsas-process`, the `main_loop`s) |
| `Files2Tar`, `Tar2Files`, `Files2Fs`, `Fs2Dev` | the four processes that move the data |
| `Scsi2Files` | scsi2files and the dev2scsi it forks |
| `Services` | analyzer, uploader, cmdexec, identificator, filter, usbdev |
| `Orchestrator` | the variables of usbsas, its calls, `end_all` / `wait_all` |
| `CopyFiles` | the states CopyFiles, WriteFiles, UploadOrCmd |
| `Usbsas` | a whole session: the remaining states, all processes together, deaths, the specification and its properties |
| `Dialogue` | what a client sees of usbsas: which requests a state takes and which responses follow, in which order |
| `Session` | the specification of that dialogue: what usbsas promises its client |
| `Conformance` | the refinement mapping from `Usbsas` to `Session` |
| `ChildContract` | one child alone under an arbitrary parent |
| `Server` | the web server over a `Dialogue`: handlers, the mutex, transfer threads, `ResponseStream`, reset |
| `SectorCopy` | which sectors a wipe and a copy write |
| `SelectFiles` | the walk from the selection to the lists of files and directories |
| `FileStore` | what a file system writer promises to files2fs (`FSWrite`) |
| `FatChain`, `FatFile`, `FatFs` | the FAT library for FAT32 and exFAT: cluster chains and their allocation; the data path of a file; directories and the calls of `FSWrite`, implementing `FileStore` |
| `SessionInvariants`, `ServerInvariants` | the inductive invariants of `Usbsas` and `Server` |
| `*Proofs` | theorems, see section 4 |
| `MCUsbsas`, `MCChildContract`, `MCSelectFiles`, `MCFatFs` | small instances |

The process modules share three functions over process names: `st[c]`, the
state of `c`, named after the code's `State` enum; `req[c]` and `rsp[c]`, the two
pipes. One action is one handler: it takes a request, writes all the responses
to it and changes the state. A handler that waits for another process is cut
there ("Opening", "Listing", "Ending" of scsi2files; the copy and wipe loops of
fs2dev, which write progress). An unlock is a record of type `Unlock` in `req`;
only a process in state `Locked` can take it, and any other one stays blocked
on it, as the code does on bytes that are not a length prefix.

usbsas is `state`, its `State`, and `pc`, the point in it. `CallOf` is the table of
its calls: at which point, to whom, which request. `SendRequest` is the first half
of a call, `CallOk` / `CallFails` the second. A loop over a list keeps what is left of
it in the set `todo`; no property here depends on the order.

The server does not see the children: it is composed with `Dialogue`, whose
`Accepts` and `Steps` are the tables that `Session` is made of and that `Usbsas` is
shown to follow. `Server` cuts a handler where it takes or gives up the mutex and
where it blocks on the pipe, and `poll_next` at each of its three reads of shared
fields.

Abstractions:

* an entry is a model value; a file is the number of `READ_FILE_MAX_SIZE` chunks it
  takes (`Size`), in the archive (`tar[e]`) and in the image (`img[e]`), `-1` for none;
* the destination device is "old", "torn", "zero" or "image" in `Fs2Dev`;
  `SectorCopy` looks at its sectors;
* an I/O failure is a nondeterministic choice, allowed when its name is in `Faults`
  (`DeviceFails`, `MayDie`, `BadInput` and `HostFails` in `Server`). A read that
  `ff_disk_read` answers with zeros ("src_zeros") is a response `Zeros` of
  scsi2files, which usbsas cannot tell from another; the history variable
  `hidden` collects the files that were changed or left out that way;
* `Server` has one browser with one request in flight, besides the transfer thread
  that an earlier request has started. The code serves requests concurrently, and
  its client polls `/id`, `/devices` and `/status` (`usbsas-server/src/server.rs:167-172`):
  two handlers exclude each other only for the length of a call, and what they do
  to each other between two calls is not covered;
* the analyzer reports every file of the archive, clean or dirty;
  whether a remote server does is not under the control of this code;
* what the filter matches is the constant `Rejected`; the calls to scsi2files and
  filter made while the selection is walked change neither process and are
  part of `Select`;
* in the FAT modules a name takes a number of directory slots, a cluster holds a
  few bytes, and times and the encoding of sectors are left out. So are the largest
  size of a directory (65536 slots on FAT32, `ff.c:1722`) and the limit of 99 short
  names with the same beginning (`ff.c:2479-2489`): both make a call fail that
  succeeds here.

## 3. Runs

Passing runs:

| run | instance | shows |
|-----|----------|-------|
| `copy` | two files (of two reads, and empty), a directory, analysis, all recoverable I/O faults, reads of zeros | the properties of a transfer, and that `TransferInv`, the invariant they are proved from, holds |
| `client` | every kind of request in any order, all destinations, filter, a file too big for FAT | usbsas implements `Session`; unlocks, device writes, every request is answered |
| `crash` | one death of any child but files2fs, scsi2files and dev2scsi, at any point | the archive is still read whole, the session still answers, once |
| `contract` | each of the eleven children, any sequence of requests, all faults | one answer per request in a working state, no blocked parent, exit on End |
| `sectors` | five sectors of two bytes, writes of two sectors, two arbitrary writes to the image | exactness of wipe and copy |
| `select` | the tree `/h /d/f /d/e/g`, selections of up to three entries with repetitions | the lists are complete, ordered, free of repeated files |
| `server` | six kinds of HTTP request in any order, two destinations, bad input, deaths of usbsas, one reset, which may fail | pipes in step, the chosen destination, every handler returns; `ServerInv`, the invariant the first two are proved from, holds |
| `fat` | eight clusters of four bytes, three files and a directory, FAT32 and exFAT | chains, entries and contents after every call but a failing `f_mkdir` on exFAT; the image implements `FileStore` |

Bounds. One file would miss the state left behind by a file that failed, so `copy`
has two; `f1` takes two reads so that a failure can fall between them, `f2` is empty,
so that it takes none. `Rejected` is empty in `copy` (the filter is in `client`). `BvChunks` = 2
has both a last and a non-last chunk, `Groups` = 2 a copy that fails after it has
begun, `PipeCap` = 2 a status that has to wait for its reader. One death
(`MaxCrashes` = 1) is what the code can be expected to survive. In `SectorCopy` the
device has an odd number of sectors, so the last buffer of a wipe is cut and so
is a run of flags; the flags take two chunks. In `Server` the pipe holds two
responses, the most that usbsas writes without reading, and `MaxSessions` = 2 has
one reset, so that what one session leaves in `out_dev` meets the next. In `fat`
a directory entry takes three of the four slots of a cluster, so a second entry
makes the directory grow, and the writes of five bytes cross clusters; eight
clusters are full after a few of them. Two names take more slots than a cluster
has on FAT32, as a long name does on a volume with one sector per cluster: a
directory then takes two clusters, or keeps one when the second cannot be had.
`MaxFatSize`, 4 GiB - 1 in the code, falls inside the fifth write to a file.
`Leftovers`, what the uninitialised object of `f_mkdir` may hold, is empty in `fat`:
the failure of `f_mkdir` on exFAT, which breaks `ChainsSound`, is the subject of
run `mkdir` and no step of `fat`; that on FAT32 is one.

Fairness. `FairSpec` gives weak fairness to each process separately: a thread that
can move is eventually scheduled. The client owes nothing, and faults and deaths
are never forced. In `ChildContract` the parent reads what it asked for. In `Server`
handlers, transfer threads, the stream's task and usbsas are scheduled, and a call
of usbsas returns (strong fairness of the steps that do not only report
progress): it reports a finite number of times. `Spec` of `SelectFiles` and
`FairSpec` of `SectorCopy` say only that a loop does not stop by itself. Deadlock
is checked in all passing runs but `fat`, where files2fs may stop at any point.

Runs that end in a violation, each a disagreement between the code and what the
repository says of it (details under "findings" in `PROJECT.json`):

| run | what happens |
|-----|--------------|
| `badfstype` | files2tar is unlocked before the file system type is checked, and again at the end: End is never answered |
| `devwrite` | a failed device write answers an error and then CopyDone |
| `stream` | `poll_next` stores its waker after the last message was put and `done()` was called: the stream never ends |
| `mkdir` | `f_mkdir` on exFAT gives back the cluster of a directory it could not register through an object whose start cluster was never set |

The deaths of files2fs, scsi2files and dev2scsi, a dev2scsi that fails outside its
sandbox, a file system that cannot be unmounted, and unknown file system types
can make usbsas wait for ever for the exit of a child, and are left out of the
passing runs of `Usbsas`, which check liveness. The theorems on a session leave
out none of them but the last. `contract` has all of the faults.

## 4. Theorems

### The proof modules

```
   SessionInvariants          ServerInvariants   SectorCopy
           |                         |               |
      UsbsasProofs             ServerProofs   SectorCopyProofs
       /        \
ConformanceProofs  ArchiveProofs
      |                |
LockstepProofs     TransferProofs
         \         /
        SafetyProofs
```

| module | proves |
|--------|--------|
| `UsbsasProofs` | `SessionTypes`; lemmas on pipes, on what a step of each process leaves alone, and that the steps of the children with one answer to each request keep `PipeInv` |
| `ConformanceProofs` | `SessionControl`, `SessionRefinement`; that the steps of fs2dev, of the services and a death keep `PipeInv` |
| `LockstepProofs` | that the steps of usbsas keep `PipeInv` |
| `ArchiveProofs` | that every step keeps `WriterInv` and `TarSync`, and the steps of usbsas and files2tar `TarInv` |
| `TransferProofs` | that the other steps keep `TarInv`, and every step `ImgSync`, `CleanInv`, `ImgInv`, `DevInv`, `AccountInv` |
| `SafetyProofs` | that every step keeps `FinalInv`; the theorems on a session, from all of these |
| `SectorCopyProofs` | the theorems on the sector copy |
| `ServerProofs` | the theorems on the web server |

In all of them but `SectorCopyProofs`, where arithmetic is most of the work, a leaf is
for Zenon unless it names another prover: SMT where arithmetic, sequences or the
update of a function is what is left to show.

### A session of usbsas

For every set of files, sizes, faults, requests, destinations and any number of
deaths of any children:

| theorem | states |
|---------|--------|
| `SessionTypes` | `TypeOK` |
| `SessionControl` | `ControlInv`: usbsas is at a point of its state and has not answered before it waits for the next request |
| `SessionRefinement` | `ImplementsSession`: the initial states map to initial states of `Session`, every step to a step or a stutter |

and with the hypothesis `"Bad" \notin FsTypes`:

| theorem | states |
|---------|--------|
| `SessionPipes` | `SessionInv`, the invariant of the pipes |
| `RequestsPaired` | `Lockstep` |
| `UnlockBytesOnce` | `UnlockedOnce` |
| `DeviceOnDemand` | the action property `DeviceOnlyOnDemand` |
| `TransferSound` | `TransferInv`, the invariant of a transfer |
| `ArchiveReadWhole` | `TarReadComplete` |
| `OnlyCleanWritten` | `OnlyClean` |
| `ImageCopiedWhole` | `ImageComplete` |
| `GivenUpUntouched` | `GiveUpLeavesDevice` |
| `EveryFileAccounted` | `Accounted`, of the files that no unnoticed read failure has hidden |
| `ReportedReadsAccounted` | the same of every file, if `"src_zeros" \notin Faults` |
| `OneAnswerEach` | `OneFinalAnswer`, if `"dev_write" \notin Faults` |
| `CopyDoneTrue` | `CopyDoneMeansCopied`, if `"dev_write" \notin Faults` |

"Bad" stands for a file system type that the code does not know. With one the
code does write an unlock byte twice (run `badfstype`), and `UnlockedOnce` is false.
With a failed device write it does answer twice and say CopyDone (run `devwrite`).
These hypotheses are what separates the code that is right from the findings.
`"src_zeros" \notin Faults` says that a failed read of the source is reported, as the
readers of NTFS, ext4 and ISO9660 do and the one of FAT does not. Then nothing is
hidden (`ReadsInv`, kept by every step) and `Accounted` is about all files; without
it, it says nothing of a file in `hidden`: a file copied as zeros counts as whole
for usbsas, and one that was never listed is in no report. Nothing else is assumed
beyond the types of the constants.

None of the properties is inductive. `SessionInvariants` has what they need:

* `TypeInv` types the messages in the pipes too, because variables get their
  values from them, and says that the entry being copied exists where it is used.
* `ControlInv` ties `pc` to `state`, which the refinement needs to know what the
  client sees.
* `PipeInv` says, child by child, what may be in its two pipes given its state and
  whether usbsas waits for it. `Lockstep` alone is silent on a child that is being
  waited for, and that is when the pipes fill. fs2dev and analyzer answer one
  request several times, so their cases also say which responses are still to
  come at which point of usbsas; uploader is parked after its one request.
  `FlagOK` and `LocksOK` say when the `locked` flag of usbsas and the state of the child
  agree, including in `end_all`; `WaitOK` for whom usbsas can be waiting.
* `WriterInv`: the request that files2tar or files2fs handles is the one usbsas
  has just made, and what a failed writer left unread is an error or the answer
  to End. `Lockstep` allows a failed child an error in excess: without this, a
  left-over success could be taken for the success of a later write.
* `TarSync`, `ImgSync`: usbsas and the writer are at the same chunk of the same
  entry, with the response still in the pipe taken into account.
* `TarInv`: nothing in the archive is unfinished but the entry files2tar is at;
  nobody (tar2files, analyzer, usbsas) takes the archive for closed before it is;
  a verdict in a pipe is on the files that are in it.
* `CleanInv`: the list of files usbsas works on has neither rejected nor dirty
  files, and nothing is in the image before the verdict.
* `ImgInv`: a file that is not whole in the image was reported, or usbsas is at it;
  only a closed image is copied.
* `DevInv`: until a copy or a wipe is asked for, and after a transfer was given up,
  the device is untouched and fs2dev is in no loop that writes.
* `AccountInv`: where each file is at each point: still to do, in the archive, in
  the image, or in a list of the report; and fs2dev announces the end of a copy
  only when the image is on the device.
* `FinalInv`: a copy that no write error interrupts says nothing but progress and
  CopyStatusDone, so usbsas has given one answer at most.

Each is shown to be kept by the steps of each process; for a step of usbsas that
does not belong to a transfer one lemma (`AsideSteps`) says that it leaves alone
all that the invariants of a transfer are about. TLC checks `TransferInv` in run
`copy`.

### The web server

`ServerProofs` proves `ServerSound` (`ServerInv`), `ServerInStep` (`InStep`) and
`ServerDestination` (`ChosenDestination`) for any set of requests and destinations,
with or without analyzer and command after the copy, for any deaths of usbsas
and failed resets,
any number of sessions and any size of the pipe, if `~DeviceFails`: when a device
write fails usbsas answers Error and then CopyDone (run `devwrite`), and the second one
stays in the pipe for whoever takes the mutex next.

`InStep` is about the next response only. The thread of a transfer reads in the
loops Tar, Analyze, Fs, Final, Post, and usbsas may be several responses ahead of
it: `Leads(d, l, s, e)` says that the responses `s` that are in the pipe take the
thread from its loop `l` to a loop `e`, each one being expected where it is read,
and `Serving(e)` that `e` is the loop that goes with what usbsas is doing now. A
response written extends the path at its end (`LeadsFurther`), a response read takes
its first edge off (`LeadsOn`), and that is what makes `JobInv` inductive. A handler has
at most its own call in the pipes (`CallInv`); with the mutex free they are empty
(`FreeInv`). For `ChosenDestination`, `SelectInv` says that a session in which a device
is open has `out_dev` set in that session, except between the OpenDevice of
`device_select` and its end, when usbsas is not yet in a state that takes CopyStart.

### The sector copy

`SectorCopyProofs` proves, for every sector size, device size, write size and chunk
size (a multiple of a byte, assumption `ChunksAreBytes`), all safety properties of
`SectorCopy`:
`TypeCorrect`, `CopyExact`, `NoByteLost`, `NoWrapAround`, `WipeExact`, `WritesBounded`.
The inductive invariant `IndInv` adds three facts to the properties. While wiping,
what is left is a number of whole sectors and those before `pos` are zeroed
(`WipeInv`), which is why the last buffer can be cut by bytes and counted in
sectors. Only flagged sectors hold the image, and those before `pos` all do
(`CopyInv`): it is what makes the position after a cut run the right place to
resume. Every byte written has its
sector flagged (`WrittenFlagged`). Two lemmas carry the arithmetic: `ForwardedExact`,
a flag arrives where it was sent from when chunks are whole bytes, and
`TouchedExact`, the flags of a write cover its bytes and start within the file.

### Only model-checked

* Liveness (`RequestsAnswered`, `Replies`, `EndExits`, `Terminates`, `WalkEnds`,
  `HandlersReturn`): out of reach of the prover, which has no ENABLED.
* `SelectFiles`: `ParentsFirst` and `WalkComplete` rest on what `SelectSeq` returns and
  on paths of any depth, both by induction over sequences, which the provers
  cannot do. `FilesOnce` is checked with them.
* `OneAnswer` of `ChildContract`: it counts answers with `SelectSeq`, for the same reason.
  What usbsas needs of it is proved as `PipeInv`.
* The FAT modules: the chains are recursive definitions, and so is the reading of
  a file through them.

## 5. Not modelled

The source file system readers and the NTFS library (seen here as operations that
may fail, and on a FAT source fail unnoticed), failures of the local temporary file
under the image (which `ff_disk_read` would also read as zeros), the bulk transport and the read cache of USB
mass storage, partition tables, the rules of the filter, the hot plug thread of
usbdev, the analyzer server and the polling of it, seccomp filters, configuration
parsing, the HTTP client, the HID manager, the graphical clients and the command
line tools. `PROJECT.json` gives the reason for each.
