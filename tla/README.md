# A TLA+ model of aura-gpu

`aura-gpu` is a Linux kernel module that gives user space an i2c bus: the one on
which the LED controller of an AMD graphics card sits. The module does not
program the card's i2c hardware itself. It reads the video BIOS, and executes
the BIOS's own command table `ProcessI2cChannelTransaction` in an interpreter,
once per byte. A second adapter, which drives the i2c engine's registers
directly, is compiled into the module but not created by `main.c`.

This directory holds TLA+ modules for the parts of the driver that keep state,
TLC configurations that check them on small instances, and TLAPS proofs of the
results that matter most for every instance.

## 1. Inventory

| component | source | state | operations | interacts with |
|---|---|---|---|---|
| register service | `aura-gpu-reg.c` | mapped aperture, spin lock, the card's registers behind it, the MM_INDEX/MM_DATA window | `reg_read`, `reg_write`, `reg_update_ex`, `reg_set_ex`, `reg_get_ex` (and `reg_wait_ex`, `reg_update_seq_ex`, not used) | called by the interpreter (through `mm_read`, `mm_write`) and by the engine adapter |
| hardware assisted adapter | `aura-gpu-hw.c` | the context; per transfer: job, offset, remaining bytes, parameters of the table | `aura_gpu_i2c_xfer`, `aura_gpu_i2c_process_i2c_ch` | called by the i2c core under its bus lock; calls the interpreter |
| i2c engine adapter | `aura-gpu-i2c.c` | context and mutex; the engine's control, pin, transaction, data, status registers | `aura_gpu_i2c_xfer`: open, submit, poll, reply, close | called by the i2c core; register service; the engine runs concurrently |
| life cycle | `main.c`, creation and destruction in `aura-gpu-hw.c`, `aura-gpu-i2c.c` | which objects are allocated for which card, which adapters are registered and known to the caller | search for cards, module init and exit, the three creators, destroy, the error paths, rollback | module loader, i2c core, users of the device node |
| ATOM interpreter | `atom/atom.c` | the shared context (mutex, data and register blocks, fb base, io mode, divmul, comparison flags, shift, io attributes, index of the index-IO programs); per execution the parameter words; per call a frame with work space, abort flag and loop timer; the scratch area | `atom_execute_table` and the opcodes, operands, index-IO programs, `atom_parse` | called by the hardware assisted adapter; register service |
| BIOS image and tables | `aura-gpu-bios.c` | copy of the ROM, revisions and addresses of its tables | create, release; queries for connectors and i2c lines, which nothing calls | life cycle |
| ASIC register tables | `asic/*` | none: constants | | engine adapter |
| table dumper | `atom/parser.c` | not built | | |

**What is hard here.** Several threads may transfer at once; each register
outside the aperture takes two accesses; updates are two separate accesses; a
transfer of n bytes is n executions of a table with the mutex dropped in
between; a table may fail or be aborted at any point; the engine answers late,
with an error or never; creation may fail at each step, and of two cards at the
second; the module can be unloaded while transfers run; and what an instruction
does depends on lanes, windows and modes that earlier instructions, or other
users of the card, have moved. Nothing is persisted, so there is no recovery
from a crash. `PROJECT.json` lists these hazards one by one with the line of code
where they bite and the properties that cover them.

**What makes each part correct.**

* register service: every operation is atomic, no update is lost, nobody waits
  for ever;
* hardware assisted adapter: a reported success means what the caller thinks,
  a failure leaves no more than a prefix behind, slaves are changed only as the
  messages ask, what is advertised works, and a transfer returns if its tables do;
* engine adapter: a result belongs to the transaction it is reported for, a
  failure stops the transfer, the engine is at rest afterwards, every transfer
  returns;
* life cycle: no transfer on freed memory, nothing freed twice or forgotten,
  unloading ends;
* both adapters: their clients see an i2c adapter that does a first part of a
  transfer, in order, and all of it when it reports success;
* interpreter: executions do not influence each other, a table keeps its own
  parameters, an abort unwinds completely and is reported, a table
  that repeats one jump is given up; an operation changes the lane it names to what it should be and nothing
  else; index-IO programs run as they are written;
* BIOS tables: the layout stored is the layout read, a query finds what it was
  asked for or says that it did not, and returns whatever the image holds.

## 2. The modules

| module | models | state |
|---|---|---|
| `RegFile` | what the register service promises: an atomic file of registers | `file`, calls in progress and their results |
| `RegService` | `aura-gpu-reg.c`, one action per `readl`, `writel`, lock and unlock | `file`, `mmIndex`, `lock`, the caller's `mutex`, a `pc` per thread |
| `I2cAdapter` | what either adapter promises the i2c core: an abstract i2c adapter | `call`, `owner`, what was `done`, `answer`, `reply` |
| `HwI2c` | `aura_gpu_i2c_xfer` and `process_i2c_ch` of `aura-gpu-hw.c` | slaves' registers `mem`, `bus` lock, `mutex`, `job`, `buf`, `pos`, `offset`, `args` per client |
| `I2cEngine` | `aura-gpu-i2c.c`, and the engine as an actor | software: `mutex`, `pc`, `timeout`, `result`, ...; hardware: `control`, `pins`, `trans`, `data`, `index`, `status` |
| `Lifecycle` | search, load, create, fail and undo, roll back, destroy, unload, for each of the three creators | `creator`, `card`, `live` objects, `todo` steps, `core`, `adapdata`, `made`; users' devices `open` and transfers `using` |
| `AtomExec` | `atom_execute_table` and the control opcodes of `atom/atom.c` | `mutex`, `ctx` registers, `ps` words and a `stack` of frames per thread |
| `AtomOperand` | the operands of `atom/atom.c` and what its operations compute | the locals `dst`, `saved`, `src`; `ps`, `ws`, `scratch`; `ctx`, `io_mode`, `flags`; the card's `reg` and `mmIndex` |
| `AtomIio` | `atom_index_iio` and `atom_iio_execute` | the bytes of the `image`, where the `walk` is, and the index `iio` |
| `BiosTables` | `aura-gpu-bios.c`: creation, release and the queries, over images of every layout | the `image`, revision and layout of `master` and `objinfo`; per query `object`, `rec` and its outputs |
| `MC_*` | the small instances TLC checks | |
| `RegService_proofs`, `HwI2c_proofs`, `I2cEngine_proofs`, `Lifecycle_proofs`, `AtomExec_proofs`, `AtomIio_proofs`, `AtomOperand_proofs`, `BiosTables_proofs` | TLAPS proofs, each about the module it is named after; those of the two adapters end with the refinement of `I2cAdapter` | |

Names follow the source. A variable whose comment says *history* records what
happened for a property to speak about and no action depends on it.
A definition whose body is a plausible mistake (`TakeLockUnchecked`,
`NextOffsetStuck`, ...) stands beside the one it would replace. Nothing uses
these; they are there to try out whether a property notices the mistake.

### RegService and RegFile

A thread calls (`Invoke`), takes the caller's mutex if the register is one that
is guarded (`Acquire`), and makes one or two accesses. A register in the
aperture is one step (`AccessDirect`); one beyond is `Lock`, `WriteIndex`,
`AccessData`, `Unlock`. `reg_update_ex` and `reg_set_ex` are a load and then a
store, with the spin lock dropped in between. A value is a function from fields
to bits, so that a mask is a set of fields; widths and shifts are left out.
`GuardAssumption` is the callers' promise: read-modify-write only on registers
that are accessed with a mutex held (the engine's `context->mutex`, or the
interpreter's `ctx->mutex`). `RegAssumption` leaves MM_INDEX and MM_DATA themselves out:
only a command table may name them as registers, and the interpreter then accesses them as any
register in the aperture, without the spin lock around the pair; `AtomOperand` models this.
In today's module everyone who could interfere holds one mutex. `RegService` implements `RegFile` with
`call <- op` and a result from the last access on.

### HwI2c

`Call` and `BusLock`/`BusUnlock` are the i2c core. `Dispatch` and `Refuse` decide
by the shape of the message array: a zero-length message (probe), a write of
two bytes or more, an offset followed by a second message; anything else is
refused. The loop is `TableBegin`, the table (`SlaveActs` or `NoSlaveActs`, then
`TableEnds` or `TableAborts`) and `CheckStatus`. `args.status` starts as the
offset, because `ucStatus` and `ucRegIndex` are one byte of a union. The table
and the slaves are external: a table that runs to its end reports
success only if the slave acted, and may report failure although it did; an
aborted one may have acted or not and reports nothing. `Reliable` is a set of
addresses at which the bus does not fail.

### I2cAdapter

The promise of an adapter to the i2c core: a transfer has a `Plan` of transactions;
`Perform` does the next one, `Succeed` needs all of them, `FailTransfer` may come
at any time; nobody else's transfer is in between. For `HwI2c` a transaction is
one byte at its offset (`PlanOf` says which, `DoneFor` which are done), for
`I2cEngine` a message. The exceptions are in `IsDone`: a byte aborted at an offset
that reads as success; messages that do not fit the buffer, of which only the
order is promised.

### I2cEngine

One action per register access of the driver that the engine or another
client could see. Assumed of the engine, from the field comments in
`aura-gpu-i2c.c` and how the code relies on them: GO starts a transaction some
time later and clears itself; flags are raised at the end, an error together with
DONE; DONE_ACK clears the flags but not BUSY; SOFT_RESET puts the engine at rest;
the index of the data register moves on with every access and wraps. Speed,
prescale and the values of the pin selection are constants and left out. The i2c
core's bus lock is left out too, so that what is checked rests on the context's
own mutex.

### Lifecycle

`Cards` PCI devices, of which those in `Match` are in `pciidlist`, are searched in
order (`SearchOn`, `FindCard`, `FindEnds`). `creator` is the function that the
module creates with: `"hw"` (`aura_i2c_bios_create`, which `main.c` calls), `"one"`
(`gpu_adapter_create`, which goes on to the next card after a failure) or `"two"`
(`gpu_adapters_create`, which wants two cards and destroys what it has made when a
creation fails). `todo` holds the steps that create or destroy has left, in the
order of the code; `CreateFails` lets each step fail and continues with that step's
error path. A transfer uses the objects in `XferUses`, one step each, and anything
may happen in between. `Holder`s open the device node, and so hold a reference to
`adapter.owner`; `Bound` users are drivers on a client of the bus, which hold
none.

### AtomExec

A `Program` is a set of tables of instructions: `Set` and `Use` of the context's
registers, `SetPs` of a parameter word, `Compare`, `Test`, `Jump`, `Switch`, `Call`,
`Eot` and `Invalid`. What operands are worth is a nondeterministic outcome. A frame's
`base` is where its `ps` points to; a call moves it by `PsBytes \div 4` words, as the
code does, so that the callee's words overlap the last one of a caller whose
parameters are no whole number of words. `own` and `mine` record what an
execution, and a frame, have set themselves. `Expire` lets five seconds go by for a
frame that noted a jump (`last_jump`, `last_jump_jiffies`). The interpreter's
recursion is the `stack`.

### AtomOperand and AtomIio

Here the operands have values. A straight line of instructions runs in the steps of
the code: `GetDst` (`atom_get_dst`, with `saved`), `GetSrc`, then `PutDst`
(`atom_put_dst`), `PutResult` (the operations that answer in `divmul` or the flags),
`Set` (ports, blocks) or `FbBaseIsSet`. Between two of them `Elsewhere` lets another user of the
card move MM_INDEX. Words have four bytes of `ByteBits` bits; masks, shifts and
`atom_dst_to_src` are the code's tables, and the numbers are kept to the width of
the member they are stored in. Undefined behaviour is a choice: a shift by 32 or more
gives what either an x86 or an ARM shift gives, a word beyond the scratch area or the image
is `Foreign`, a `saved` that was not written is anything.
`AtomIio` assembles an image from a list of programs, walks it as
`atom_index_iio` does, and executes it as `atom_iio_execute` does, from the bytes.
`Computed` and `Meaning` are the reference definitions they are compared with: one
speaks of numbers and lanes, the other of lists of instructions.

### BiosTables

An image is a record of what its tables hold. `Create` accepts or refuses it and
stores one layout; each query (`GetConnectorsNumber`, `GetConnectorId`,
`GetI2cInfo`, `GetGpioInfo`, `GetCrystalFrequency`) dispatches on the revision
again. `Garbage` is the answer of a query that reads the tables in the layout in
which they are not stored: the two pointers are a union, so nothing is known of
it. `GetI2cInfo` goes on with `Lookup` and a `WalkRecord` per record. Offsets
become sequences: a list that ends without an end record stands for one that
runs into the end of the image (`get_image` returns NULL); for the firmware table, of which only
the revision is kept, that it is refused is a choice of `GetCrystalFrequency`. The numbers read from
the tables and the card's name are left out, and so is the check of `get_str`.
There is one caller, because the module has none yet and a context is created
for one.

## 3. The runs

All runs check deadlock.

| run | states | question | properties |
|---|---|---|---|
| `regs` | 76 008 | do two threads see atomic registers? | `FreshUpdate`, `FieldsKept`, `Atomic` (refinement of `RegFile`), `CallReturns` |
| `hw` | 89 632 | what do success and failure of a transfer mean? | `SuccessUnlessAliased`, `Coherent`, `EmulatedOutcomeUnlessRefused`, `OnlyAskedWritesUnless`, `TransferReturnsIfTablesEnd`, `Implements` (refinement of `I2cAdapter`) |
| `hw_status` | violated | does success mean that every byte was done? | `SuccessMeansDone` |
| `hw_emul` | violated | does every SMBus request that is advertised succeed? | `EmulatedSucceeds` |
| `engine` | 106 806 | are results, failures and the engine's state kept apart? | `RestWhenFree`, `CleanStart`, `XferReturns`, `Implements` (refinement of `I2cAdapter`) |
| `engine_poll` | violated | is a success that was seen reported? | `SeenIsReported` |
| `engine_long` | violated | is the length of a message transferred? | `CountIsLength` |
| `life` | 5 121 | is loading, rolling back and unloading safe against transfers, for each creator? | `NoUseAfterFreeUnlessBound`, `NothingLostUnlessParse`, `FreedOnce`, `LoaderEnds` |
| `atom` | 15 695 | do executions and tables stay apart and always end? | `Isolated`, `WorkSpacesOfFrames`, `FailureReported`, `NothingAfterAbort`, `ExecutionReturns` |
| `atom_loop` | violated | is every stuck loop given up? | `StuckLoopAborted` |
| `operand` | 256 809 | do instructions compute what they name, and where? | `Computes`, `DataIsNamedUnlessMoved`, `ScratchUnlessEdge`, `IioRuns` |
| `bios` | 551 | do the queries read what was stored, find the right object, record and pin, and return? | `LayoutAgreesUnless`, `EnumerationCoversUnlessGap`, `FoundIsAsked`, `WalkFindsFirst`, `PinIsCountedUnless`, `QueryReturns` |

Every passing run also checks its module's `TypeOK`.

**Bounds, and why they are enough.**

* `regs`: two threads, because the lock's and the mutex's protocol is between
  an owner and one other; registers 7 (last word of an aperture of 32 bytes), 8
  (first beyond it, guarded) and 9 (beyond, not guarded): both paths, the
  boundary, and two registers that compete for the window; two fields of one
  bit, so that two updates of one register can lose each other's.
* `hw`: two clients; a slave at which transactions may fail or be aborted, one at
  which they do not, and an absent one; bytes of four values, so that a block of
  three written or read from offset 3 wraps and passes the offset that equals
  the success status; one request of each shape the code tells apart, with the flag of a read
  on a probe and another address in the second message, and those it refuses. The slave that a
  probe or a misaddressed write reaches has been written before, so that both exceptions of
  `OnlyAskedWritesUnless` happen.
* `engine`: two clients, a buffer of four entries (16 in the hardware), three
  polls (the code's 11), messages that just fit and two that do not. Whether
  an answer comes before, at or after the last poll is all that the number of
  polls decides.
* `life`: the three creators; three cards, of which the second is not in the list,
  so that a search passes one and finds two; two holders and two bound users, so that
  one may transfer while another opens, closes or transfers.
* `atom`: two threads; five tables with calls three deep, a table that
  is missing, a loop, an unknown opcode, a switch and every condition; four
  parameter words, so that a callee's overlap its caller's half word; one table that
  jumps before it compares.
  `ExecutionReturns` is checked for tables whose loops come back by a jump that
  is the only one taken in its cycle; `atom_loop` shows that it is false
  without that.
* `operand`: bytes of two bits, so that a word (8 bits) still has four bytes, two
  overlapping pairs and carries between them, and every alignment and selector is
  tried with every operation, at small and at full values. Then every sequence of three out of 19
  instructions that move a window, a port or MM_INDEX or use what was moved, and of
  two with ten rarer ones. Four registers in the aperture and two beyond; a
  scratch area of two words, so that the window reaches its last word, its edge and
  wraps around; shifts up to 15 on words of 8. Five index-IO programs with
  operands that look like opcodes, a method defined twice and an empty one.
* `bios`: twenty images: each revision of the header on either side of the
  tests (1.1 to 1.3, 1.5, 2.1, 2.2, 2.3), of the table of objects and of the
  firmware table; the defects creation finds; and one list of objects and one
  of display paths with ids of known and unknown kinds, the same kind twice, a
  path without an encoder, and records that are short, of size 0, of no line, or
  not ended. A query's result depends on one image, so that more objects would
  repeat these cases.

**Violated runs.** Each shows a disagreement between the code and what its own
comments or README say; `PROJECT.json` quotes the lines.

1. `hw_emul`: `I2C_FUNC_SMBUS_EMUL` is advertised (`aura-gpu-hw.c:343`), and `src/README.md:60-72`
   shows `i2cdetect` finding a slave at 0x30, which it looks for by receiving a byte. The code
   refuses every message of one byte (line 334), and process calls.
   `EmulatedOutcomeUnlessRefused`, checked and proved, says that all other requests work.
2. `hw_status`: the result of `atom_execute_table` is ignored, and the status byte
   still holds the offset if the table is aborted. At offset 1 that reads as
   success. `SuccessUnlessAliased`, checked and proved, says that this
   is the only way in which a success is wrong.
3. `engine_poll`: `poll_engine` looks at its counter and not at its result, so a
   success that the last poll sees is reported as a timeout.
4. `engine_long`: the length is written to a field of four bits without a bound.
   The model also shows that a long write wraps over the buffer's address
   entry, and that a long read hands left over bytes to the caller.
5. `atom_loop`: the loop timer restarts at every taken jump to another target, so
   a loop with an `if` in its body never times out, with the mutex held.

The properties with `Unless` in their names, and some others, hold with an exception that
the property spells out. An exception is a known deviation: it is disclosed, not caught, and
the property shows that there is no other. Those of `EmulatedOutcomeUnlessRefused` and
`SuccessUnlessAliased` have a violated run of their own, above.

* `OnlyAskedWritesUnless`: it speaks of what the messages themselves ask for. A
  zero-length message asks for nothing, but the probe writes zero to register 0 of the slave,
  also if the message has the flag of a read (`aura-gpu-hw.c:263-275`); and only the address of
  the first of two messages is used, so what the second asks of another slave is done to
  the first one's (lines 303-311). For a read the same holds of `Coherent` and of the plan in
  `Implements`: both speak of the slave of the first message.
* `NoUseAfterFreeUnlessBound`: `aura_gpu_i2c_destroy` frees the services before
  `i2c_del_adapter`. That is harmless for users of the device node, which keep the
  module loaded, and not for a driver bound to a client of the bus.
* `NothingLostUnlessParse`: a failed `atom_parse` leaks the ROM copy and the
  registers' mapping.
* `LoaderEnds`: the rollback of `gpu_adapters_create` waits for whoever has opened the
  first card's device; nothing makes them close it.
* `Isolated`: `io_attr`, `shift` and the comparison flags are not reset between
  executions; a parameter space that is no whole number of words shares its last
  word with the tables called.
* `DataIsNamedUnlessMoved`: a table that sets MM_INDEX itself, by REG[0], does so without the
  spin lock, and an access beyond the aperture, its own or another's, moves it.
* `ScratchUnlessEdge`: the test of the scratch area lets the word just behind it
  pass, and an address that wraps around 32 bits. In this driver the word behind
  it is beyond the end of the context (`aura-gpu-hw.c:107`).
* `FoundIsAsked`: for a revision that init accepts and the query does not know (2.3, 1.5),
  `atom_bios_get_i2c_info` returns `false` (`aura-gpu-bios.c:1601`), that is `BP_RESULT_OK`,
  whose comment is "There was no error" (line 19), with nothing found.
* `Computes`: a shift by 32 or more is undefined in C, and has no right result.
* `LayoutAgreesUnless`: init stores the tables of revision 2.1 in the layout of a
  Polaris or Vega BIOS and the queries read them in that of a Navi BIOS;
  `atom_bios_get_gpio_info` reads every image as the former; and a firmware
  table may be of the other generation.
* `EnumerationCoversUnlessGap`, `PinIsCountedUnless`: the count of connectors skips
  display paths that the index does not; a line or index equal to the number of
  pins is accepted (`table_count < line`).

## 4. Fairness

Every safety property is checked without using fairness. Liveness assumes:

* a thread that can take its next step does (`WF` on `Step`, in `HwI2c` on `OwnStep`): kernel
  threads are scheduled, and none of the modelled steps can be blocked except at a lock;
* a lock is given to each of its waiters in turn (`SF` on `BusLock`, `Lock`,
  `Acquire`, `Begin`): the kernel's mutexes hand off to waiters, and its
  spin locks are queued;
* time passes (`WF` on `Expire`): `jiffies` advances;
* in `Lifecycle` creating, destroying and transfers go on. Nothing makes a user
  open, close or transfer, nor an administrator load or unload.

Nothing is assumed of the i2c engine, which may hang, of slaves, or of the
callers. Nor is it assumed in `HwI2c` that a command table ends: `atom_loop` shows that this
depends on the BIOS, for the interpreter does not give up on every loop
(`atom.c:705-719`). It is the hypothesis `TablesEnd` of `TransferReturnsIfTablesEnd`, which is false
without it: a table that is stuck keeps the mutex and the bus. `LoaderEnds` rests on it too where
the adapter is hw's, since `i2c_del_adapter` waits for transfers, whose steps `Lifecycle` takes to
happen.

## 5. Proofs

Proved by TLAPS for every value of the constants that satisfies the named
assumptions of the module: any number of threads or clients, any registers,
slaves, requests and byte size.

`RegService_proofs`. The inductive invariant `IInv` adds to `TypeOK` and
`WindowOwned`: that a thread in a guarded operation beyond its mutex owns it
(`MutexHeld`); which phase belongs to which operation (`Phases`); that *from its
load to its store* an update's value is the register's (`Fresh`), including the moment
between the two accesses where no spin lock is held, which is where
`FreshUpdate` alone is not inductive; and that a result is a value
(`HasResult`). From it: `WindowTheorem`, `FreshUpdateTheorem`, `FieldsKeptTheorem`,
and `AtomicTheorem`, `Spec => Atomic`: initial states map to initial states, and
`StepRefines` shows that each step is an `Invoke`, `Apply` or `Return` of
`RegFile` or leaves it unchanged. `Apply` is the single `readl` of a read, and the
`writel` of a write or update.

`HwI2c_proofs`. `IInv` is `TypeOK`, `OneTable`, and for each client: how position,
offset, log and buffer hang together (`Counters`); what the job has to do with
the messages (`Dispatched`, `Parameters`); which accepted bytes did not act
(`Logged`); and that after any number of bytes the slave agrees with those already
moved, except where a later one fell on the same offset (`Agrees`). The offsets
are remainders, and the lemmas on them (`RemainderUnique` and those after it) say
when two are equal. That another client does not disturb `Agrees` rests on
`OneTable`. From it: `SuccessTheorem`, `CoherentTheorem`, `OnlyAskedWritesTheorem`; the last one
also by `JobAsks`, that the bytes of a job are those that the messages ask for.

Its second part is the refinement. `ImplementsTheorem` is `Spec => Implements`, the refinement of `I2cAdapter`.
`IInv` says nothing of who transfers, how long the buffer is and which byte is in the
parameters when the status is checked; `RInv` adds this (`Extra`), and, for an address where
the bus never fails, what each step means for the outcome (`Steady`, from which
`EmulatedTheorem` follows by `EmulatedSupported`, that the requests it speaks of are of a supported shape). `StepRefines` then has one lemma for each action: `Call`, `BusLock` and
`BusUnlock` are the adapter's `Call`, `Begin` and `Return`; what the slave does
(`SlaveActs`), or an abort that will read as success (`TableAborts`), is its `Perform`;
the check that accepts the last byte is `Succeed`, the one that refuses a byte
`FailTransfer`; everything else is a stutter. `PastKept` and `AcceptRefines` are the heart
of it: accepting a byte moves it from the current one to the past ones and so leaves what
has been done as it is.

`I2cEngine_proofs`. `RestWhenFree` alone is not inductive: the engine acts on its
own, at any time after GO. `IInv` adds to it who is past the mutex (`Owner`),
where each client is in its messages and bytes (`Place`), and for each value of
the owner's `pc` the state in which it finds the engine (`State`): ready before
GO, started and anything between there and ended while it polls, clean again after
the acknowledgement or the reset, even if the answer is late. `CleanStartTheorem` is the
step to `go` from `State`.

Its second part is the refinement. `ImplementsTheorem` is `Spec => Implements`. `RInv` adds to `IInv` what is
known of the mutex's owner: how many of its messages are done (`Tally`, also of
a transfer that fails: a transaction that the engine may still carry out does not count yet); that the
buffer, its index and `count` hold the message before GO and until the engine is done with
it (`Load`); that the entry of `wire` for the last message is that message, and what
the buffer and the index are while it is read back (`Moved`); and that the replies so far
are those of the reads so far (`Replied`). The last three are stated of messages that fit the
buffer (`Fits`) only, as is the promise. `Carried` is the heart of it: what the engine takes
from its registers is the message that was put there. It rests on `AddressAssumption`: an
address has seven bits, so that it comes back from the byte that it shares with the direction
(`Halves`). `Has*` and `Reads*` count the reads among the first messages by `Cardinality`.
In the simulation `EngineSucceeds` is the adapter's `Perform`, even when the client has
stopped polling; `Reset` is where the transfer ends, with `Succeed` or `FailTransfer`,
because only from there on nothing more can be done for it.

`Lifecycle_proofs`. `NoUseAfterFreeUnlessBound` says nothing of adapters that
nobody uses yet. `IInv` says that every adapter made is complete, but the one
that is being destroyed (`Complete`); of that one, that what is left of `todo`
determines whether it still is, and that it has neither users nor a place in the i2c
core once `i2c_del_adapter` has returned (`Leaving`); that what has been allocated for
a new card is what the steps of its creation say (`Progress`); that cards are made in
order, so that no error path frees for a card that is registered (`Order`); and
that users are users of what has been made, hw's holders keeping the module (`Held`).
`Account` is a second invariant on top of it, for what `IInv` does not know: which
objects there are. For every card they are exactly what the steps still to be done say
(`Remaining`), the steps being a suffix of a creation, of its undoing or of a destruction;
what a search has found is what there is to be created (`Found`); the adapters that the caller
knows of are those that are registered and complete (`Known`, `Exact`); and what is left over
belongs to the one card at which `atom_parse` has failed (`Orphaned`): `aura-gpu-hw.c` ends
its search at its first card, so no second one can be lost. `UndoFrees` says for every creation
step at which it fails that what its error path frees is what was there, or less after
`atom_parse`. From it: `NothingLostTheorem` and `FreedOnceTheorem`.

`AtomExec_proofs`. `IInv` is `TypeOK`, `Isolated`, `WorkSpacesOfFrames`, `FailureReported`,
and: an execution has frames just while it owns the mutex (`Owner`); a
frame's parameters begin after the whole words of every frame below it
(`Bases`), which makes `Isolated` hold for any depth; and the abort flag is up
only in the innermost frame, and just if the execution has failed (`Given`), which
is why a frame that goes on after a failed call would be noticed. `ProgramAssumption`
says of an image that a table of commands ends in `Eot` and that branches stay in
their table. `NothingAfterAbortTheorem` follows from `Given`.

`AtomIio_proofs`. `WalkInv` is the invariant of the walk: it stands at the START of a
program, at the first byte of an instruction or its END, or behind the last program, never
among the operands, and it has indexed exactly the programs that it has passed, the last one of
each method (`Indexed`). Where these places are is `StartAt` and `InsAt`, sums of lengths
(`Offsets`), and `AssembleIs` says what the bytes there are: that is where the walk's table of
lengths, the interpreter's increments and the two bytes after an END meet
(`InstructionLength`, `PlacesOfProgram`). `ExecuteIs` follows the interpreter from an
instruction to the next and shows that it ends at the END with what `Meaning` says,
for every register number and value. The lemmas before it are general: induction with a set
for the predicate (`Induction`, from the well-foundedness of `<`), powers of two (`TwoExp`,
by counting subsets), the uniqueness of quotient and remainder, functions defined by recursion
(`Recursion`), and where the bytes of a flattened sequence of sequences are (`FlattenSeqIs`).

`AtomOperand_proofs`. `OperandInv` is `WalkInv` and: a table runs only when the walk is over
(`TableInv`), so that a read through a port runs an indexed method; each member of the
context has what it has room for (`ContextInv`); MM_INDEX holds the address, modulo the size of
a word, of the register that was named, unless it was moved (`CardInv`); and the last access of
the scratch area was some word of some window (`FbInv`). From it: `IioTheorem`, `DataTheorem`,
`ScratchTheorem`, `TypeTheorem`.

`ComputesTheorem` needs one thing more, `Latched`: between the fetch of an operand and the
store, `saved` is still the word that the destination holds, and `src` the value of the source,
as long as these have a value, because the only step of somebody else (`Elsewhere`) moves
MM_INDEX, and that takes the value away from `REG[0]` and `REG[1]` alone. The rest is about
numbers. A word is the sum of its bits (`NumberOfOnes`, from `NumberIs` and `NumberOnce`: a
sum of bits has one value, and different bits have different sums), so a mask cuts the lane
that the listing names out of it (`LaneIs`), merging is replacing (`MergeIs`), `&`, `|` and `^`
are what they are bit by bit (`Bitwise`), and what overflows a word is no matter to a lane
(`LaneOfWord`).

These theorems hold for bytes of any number of bits, so also for the
32 bit words of the code, and for any tables whose operands exist: `TableAssumption` says that
a table uses parameters and work space that it has and that an operand fits the bytes that it
is written in; `RegisterAssumption`, that MM_INDEX and MM_DATA are inside the aperture. Nothing
is assumed of what lies beyond the image, the scratch area or the registers.

`BiosTables_proofs`. Proved for every image of `ImageType`: any revisions, objects, paths,
records and pins. `IInv` is the five properties and: a context is of an accepted
image, with the pointers that its revisions call for (`Stored`); a query that
looks for an object reads the stored layout (`Phase`); and the records before `rec` neither
end the list nor are good (`Walk`), from which `WalkFindsFirst` follows when the walk
ends. What a lookup by `SelectInSeq` returns rests on `Least`, that a set of natural
numbers has a least element; that enumeration covers, on the cardinality of the paths
with an encoder.

**Only model-checked**: liveness (`CallReturns`, `TransferReturnsIfTablesEnd`, `XferReturns`,
`ExecutionReturns`, `LoaderEnds`, `QueryReturns`), which needs ENABLED. Every invariant and
every action property of a passing run is stated by a theorem.

## 6. Not modelled

* Of the interpreter: delays, debug output, the magic numbers and the version string of
  `atom_parse` (its failure is a step of `Lifecycle`), and `atom_asic_init`,
  `atom_parse_data_header` and `atom_parse_cmd_header`, which nothing calls. A work
  space that cannot be allocated and a recursion that overflows the stack end in an oops,
  with no behaviour after it.
* The BIOS's offsets and the numbers in its tables: what `get_image` protects is in
  `BiosTables` as the end of a sequence. `get_str`'s NULL, which
  `_aura_gpu_bios_read_name` does not test (`aura-gpu-bios.c:1238`), has no run.
* `reg_wait_ex`, `reg_update_seq_ex`: nothing calls them. The latter reads the field after the
  last one (`i <= cnt`, `aura-gpu-reg.c:228`).
* Another driver on the same card. `amdgpu` uses the MM_INDEX/MM_DATA pair and the
  i2c engine under locks of its own; no property could hold against it.
* Reference counts of `pci_dev` (`find_pci_dev` takes one that no path puts).
* ASIC tables, debug output, `parser.c`: constants, text, or not built.

## 7. Plan

Done: `RegFile`, `RegService`, `HwI2c`, `I2cEngine`, `Lifecycle`, `AtomExec`, `AtomOperand`,
`AtomIio` and `BiosTables`, each with its proofs; `I2cAdapter`, its refinements and their proofs.

Next:

1. A composition of `HwI2c` with `AtomExec`, in which the table's outcomes come from
   the interpreter instead of from `TableEnds` and `TableAborts`.
