----------------------------- MODULE PlatformControl -----------------------------
(***************************************************************************)
(* How settings reach the hardware: PlatformIO.cpp (push_control, adjust,  *)
(* write_batch, write_control, save_control, restore_control) over two     *)
(* groups, MSRIOGroup.cpp with MSRIO.cpp and SSTIOGroup.cpp with SSTIO.cpp *)
(* (mailboxes and registers in memory).                                    *)
(*                                                                         *)
(* A register is the set of its bits that are 1, a field is a set of bits  *)
(* (m_mask) and a setting, once encoded, a subset of the field.  A control *)
(* of a group is a DomainControl: the same field of a register on every    *)
(* CPU of its domain.  What is asked of PlatformIO may be a control of a   *)
(* larger domain and stands for several of these.                          *)
(*                                                                         *)
(* One thread makes all calls, so a call is one step; any access to the    *)
(* hardware may fail, and the call then throws where it stands.  The       *)
(* client may go on after an exception.                                    *)
(***************************************************************************)
EXTENDS Integers, SequencesExt

CONSTANTS
    Register,      \* registers, one for each CPU that sees its own
    MsrControls,   \* the controls of MSRIOGroup, in the order of m_control_available
    SstControls,   \* the controls of SSTIOGroup
    InMemory,      \* those of them that are registers in memory, not in a mailbox
    NameOf,        \* the name of a control, the same for every domain
    RegistersOf,   \* the registers that it writes, CPU by CPU
    MaskOf,        \* its field
    PartsOf,       \* what can be asked of PlatformIO, and the controls it stands for
    EnableOf,      \* the control set with POWER_PACKAGE_LIMIT, for the control that has one
    Refusable,     \* names that the driver may refuse to write
    BatchLimit,    \* m_batch_command_limit
    FirstBits,     \* registers when the client starts
    MaxCall,       \* bound on the calls of the client
    MaxFail        \* bound on the accesses that fail

Controls == MsrControls \o SstControls
IsMsr(c) == c \in Range(MsrControls)
IsSst(c) == c \in Range(SstControls)
IsMbox(c) == IsSst(c) /\ c \notin InMemory
Control == Range(Controls)
Request == DOMAIN PartsOf
Name == Range(NameOf)
Bits == (UNION {MaskOf[c] : c \in Control}) \cup (UNION Range(FirstBits))

ASSUME PlatformAssumption ==
    /\ MsrControls \in Seq(DOMAIN NameOf) /\ SstControls \in Seq(DOMAIN NameOf)
    /\ Range(MsrControls) \cap Range(SstControls) = {}
    /\ DOMAIN NameOf = Control /\ Refusable \subseteq Name
    /\ \A c \in Control : RegistersOf[c] \in Seq(Register)
    /\ InMemory \subseteq Range(SstControls)
    /\ \A c, d \in Control : IsMsr(c) # IsMsr(d) \/ IsMbox(c) # IsMbox(d)
         => Range(RegistersOf[c]) \cap Range(RegistersOf[d]) = {}
    /\ \A r \in Request : PartsOf[r] \in Seq(Control) /\ PartsOf[r] # <<>>
    /\ EnableOf \in [DOMAIN EnableOf -> Control] /\ DOMAIN EnableOf \subseteq Range(MsrControls)
    /\ FirstBits \in [Register -> SUBSET Bits]
    /\ BatchLimit \in Nat \ {0} /\ MaxCall \in Nat /\ MaxFail \in Nat

VARIABLES
    hw,                \* the registers
    \* PlatformIO
    m_is_active,
    m_do_restore,
    \* the groups
    available,         \* the keys of m_control_available
    saved,             \* what save() kept of every register
    m_control_pushed,  \* the controls of both groups that were pushed
    m_is_adjusted,     \* MSRIOGroup
    group_active,      \* MSRIOGroup::m_is_active
    \* MSRIO: a batch operation with its m_write_val and m_write_mask
    m_write_batch_op,
    \* SSTIO: m_mbox_write_interfaces with m_mbox_rmw_write_masks, and the same
    \* of m_mmio
    m_mbox_write,
    m_mmio_write,
    \* the client
    last,              \* the call that returned last, or "threw"
    calls, fails,      \* bound the run
    \* history
    before,            \* the registers when save_control() returned
    fresh,             \* what was adjusted since the last batch, by register
    batch_failed

pio == <<m_is_active, m_do_restore>>
groups == <<available, saved, m_control_pushed, m_is_adjusted, group_active>>
batches == <<m_write_batch_op, m_mbox_write, m_mmio_write>>
history == <<before, fresh, batch_failed>>
vars == <<hw, pio, groups, batches, last, calls, fails, history>>

Nothing == [mask |-> {}, val |-> {}]

Init ==
    /\ hw = FirstBits
    /\ m_is_active = FALSE /\ m_do_restore = FALSE
    /\ available = Name
    /\ saved = [c \in Control |-> [i \in DOMAIN RegistersOf[c] |-> {}]]
    /\ m_control_pushed = {} /\ m_is_adjusted = {} /\ group_active = FALSE
    /\ m_write_batch_op = <<>> /\ m_mbox_write = <<>> /\ m_mmio_write = <<>>
    /\ last = "nothing" /\ calls = 0 /\ fails = 0
    /\ before = FirstBits /\ fresh = [r \in Register |-> Nothing] /\ batch_failed = FALSE

-----------------------------------------------------------------------------
(* Accesses: a register is read, modified and written.                      *)

Access(reg, mask, val) == [reg |-> reg, mask |-> mask, val |-> val]

\* The first n accesses of a sequence.
Performed(regs, accesses, n) ==
    FoldLeft(LAMBDA rs, a : [rs EXCEPT ![a.reg] = (@ \ a.mask) \cup a.val],
             regs, SubSeq(accesses, 1, n))
After(n, accesses) == Performed(hw, accesses, n)

\* A register is written as a whole.
Whole(reg, val) == Access(reg, Bits, val)

\* The read mask of a mailbox or register in memory: all its known fields.
SstAt(r) == {c \in Range(SstControls) : r \in Range(RegistersOf[c])}
Known(r) == UNION {MaskOf[c] : c \in SstAt(r)}

\* What a write of a control does not keep: its field, and in SSTIO the bits that
\* the read mask hides.
Replaced(c, r) == IF IsSst(c) THEN MaskOf[c] \cup (Bits \ Known(r)) ELSE MaskOf[c]

\* DomainControl::write(), with MSRFieldControl or SSTControl.
Sets(c, val) ==
    [i \in DOMAIN RegistersOf[c] |->
       Access(RegistersOf[c][i], Replaced(c, RegistersOf[c][i]), val)]

\* DomainControl::restore()
Restores(c) ==
    [i \in DOMAIN RegistersOf[c] |->
       Access(RegistersOf[c][i], Replaced(c, RegistersOf[c][i]), saved[c][i])]

\* Setting a power limit also enables it: the end of MSRIOGroup::push_control()
\* and the start of write_control().
Enables(c) == IF c \in DOMAIN EnableOf THEN Sets(EnableOf[c], MaskOf[EnableOf[c]]) ELSE <<>>

Missing(c) ==
    \/ NameOf[c] \notin available
    \/ (c \in DOMAIN EnableOf /\ NameOf[EnableOf[c]] \notin available)

\* A call makes these accesses one by one, and throws where one fails or, when
\* it is refused, after the last.
Performs(name, accesses, refused) ==
    \E n \in 0..Len(accesses) :
      /\ hw' = After(n, accesses)
      /\ last' = IF n < Len(accesses) \/ refused THEN "threw" ELSE name
      /\ n < Len(accesses) => fails < MaxFail
      /\ fails' = IF n < Len(accesses) THEN fails + 1 ELSE fails

Call == calls < MaxCall /\ calls' = calls + 1

-----------------------------------------------------------------------------
(* push_control().                                                          *)

\* The registers of controls that have no entry yet.
Added(entries, new) ==
    (UNION {Range(RegistersOf[c]) : c \in new}) \ {entries[i].reg : i \in DOMAIN entries}

\* MSRIO::add_write(): one operation for each register.
MsrAdd(ops, new) ==
    ops \o SetToSeq({[reg |-> r, isrdmsr |-> TRUE, msrdata |-> {}, mask |-> {}, val |-> {}] :
                       r \in Added(ops, new)})

\* An interface of SSTIO, and the controls that adjust it.
Interface(r, adjusters) ==
    [reg |-> r, adjusters |-> adjusters, mask |-> {}, write_value |-> {}]

\* SSTIO::add_mbox_write(): the controls of a mailbox share its interface.
MboxAdd(ifs, new) ==
    ifs \o SetToSeq({Interface(r, SstAt(r)) : r \in Added(ifs, new)})

\* SSTIO::add_mmio_write(): every control has an interface of its own.
MmioAdd(ifs, new, parts) ==
    LET Interfaces(c) == [k \in DOMAIN RegistersOf[c] |-> Interface(RegistersOf[c][k], {c})]
    IN  ifs \o FlattenSeq([i \in DOMAIN parts |-> IF parts[i] \in new \cap InMemory
                                                  THEN Interfaces(parts[i]) ELSE <<>>])

Unpushed(r) == Range(PartsOf[r]) \ m_control_pushed

RefusesPush(c) ==
    \/ m_is_active \/ ~m_do_restore
    \/ Missing(c) \/ (IsMsr(c) /\ group_active)

\* push_control() and push_control_convert_domain(): the parts that are new are
\* pushed in order, up to one that is refused or whose access to the hardware
\* fails.
PushControl(r) ==
    /\ Call /\ Unpushed(r) # {}
    /\ \E j \in 0..Len(PartsOf[r]) :
         LET new == {PartsOf[r][i] : i \in 1..j} \ m_control_pushed
             enabled == FlattenSeq([i \in 1..j |-> IF PartsOf[r][i] \in new
                                                   THEN Enables(PartsOf[r][i]) ELSE <<>>])
             next == PartsOf[r][j + 1]
         IN /\ \A c \in new : ~RefusesPush(c)
            /\ \/ /\ j < Len(PartsOf[r]) => next \in Unpushed(r) /\ RefusesPush(next)
                  /\ hw' = After(Len(enabled), enabled) /\ UNCHANGED fails
                  /\ last' = IF j = Len(PartsOf[r]) THEN "push" ELSE "threw"
               \/ /\ j < Len(PartsOf[r]) /\ next \in Unpushed(r) /\ ~RefusesPush(next)
                  /\ fails < MaxFail /\ fails' = fails + 1 /\ last' = "threw"
                  /\ \E n \in 0..Len(Enables(next)) - 1 :
                       hw' = After(Len(enabled) + n, enabled \o Enables(next))
            /\ m_control_pushed' = m_control_pushed \cup new
            /\ m_write_batch_op' = MsrAdd(m_write_batch_op, {c \in new : IsMsr(c)})
            /\ m_mbox_write' = MboxAdd(m_mbox_write, {c \in new : IsMbox(c)})
            /\ m_mmio_write' = MmioAdd(m_mmio_write, new, PartsOf[r])
    /\ UNCHANGED <<pio, available, saved, m_is_adjusted, group_active, history>>

-----------------------------------------------------------------------------
(* adjust() and write_control().  A setting is the highest or the lowest of  *)
(* its field: all bits or none.                                              *)

Setting(c, on) == IF on THEN MaskOf[c] ELSE {}

\* Mutant: the bits of an earlier setting are not cleared.
MsrAdjustedOr(op, mask, val) == [op EXCEPT !.val = @ \cup val, !.mask = @ \cup mask]

\* MSRIO::adjust()
MsrAdjusted(op, mask, val) == [op EXCEPT !.val = (@ \ mask) \cup val, !.mask = @ \cup mask]

\* SSTIO::adjust()
SstAdjusted(if, mask, val) ==
    [if EXCEPT !.write_value = (@ \ mask) \cup val, !.mask = @ \cup mask]

\* What a request has for a register: parts of it are on different domains.
PartAt(r, reg) == {c \in Range(PartsOf[r]) : reg \in Range(RegistersOf[c])}

\* Of the given parts there is one at most.
Adjusts(parts, on, entry, op(_, _, _)) ==
    IF parts = {} THEN entry
    ELSE LET c == CHOOSE c \in parts : TRUE IN op(entry, MaskOf[c], Setting(c, on))

SstAdjusts(r, on, ifs) ==
    [i \in DOMAIN ifs |->
       Adjusts(Range(PartsOf[r]) \cap ifs[i].adjusters, on, ifs[i], SstAdjusted)]

Adjust(r, on) ==
    /\ Call /\ Unpushed(r) = {} /\ last' = "adjust"
    /\ m_write_batch_op' = [i \in DOMAIN m_write_batch_op |->
         Adjusts(PartAt(r, m_write_batch_op[i].reg), on, m_write_batch_op[i], MsrAdjusted)]
    /\ m_mbox_write' = SstAdjusts(r, on, m_mbox_write)
    /\ m_mmio_write' = SstAdjusts(r, on, m_mmio_write)
    /\ fresh' = [reg \in Register |->
         Adjusts(PartAt(r, reg), on, fresh[reg],
                 LAMBDA f, mask, val : [mask |-> f.mask \cup mask, val |-> (f.val \ mask) \cup val])]
    /\ m_is_adjusted' = m_is_adjusted \cup {c \in Range(PartsOf[r]) : IsMsr(c)}
    /\ m_is_active' = TRUE
    /\ UNCHANGED <<hw, m_do_restore, available, saved, m_control_pushed, group_active,
                   fails, before, batch_failed>>

\* write_control() and write_control_convert_domain(), up to a part that is
\* not available.
WriteControl(r, on) ==
    /\ Call
    /\ LET parts == PartsOf[r]
           some == CHOOSE j \in 0..Len(parts) :
                     /\ \A i \in 1..j : ~Missing(parts[i])
                     /\ j < Len(parts) => Missing(parts[j + 1])
           Writes(c) == Enables(c) \o Sets(c, Setting(c, on))
       IN Performs("write_control", FlattenSeq([i \in 1..some |-> Writes(parts[i])]),
                   some < Len(parts))
    /\ UNCHANGED <<pio, groups, batches, history>>

-----------------------------------------------------------------------------
(* write_batch().  An outcome has the registers, the entries of the batch    *)
(* and whether the group was "done", an access "failed" or it "refused".     *)

Outcome(regs, entries, end) == [regs |-> regs, entries |-> entries, end |-> end]

\* One ioctl over all operations, of which the first n are performed.
Ioctl(regs, ops, n) ==
    Performed(regs, [i \in DOMAIN ops |-> IF ops[i].isrdmsr THEN Access(ops[i].reg, {}, {})
                                          ELSE Whole(ops[i].reg, ops[i].msrdata)], n)

\* MSRIO::msr_ioctl_write(): read, modify, write.  Where the second ioctl fails
\* the operations stay writes, so the first of the next batch writes too.
MsrBatch ==
    LET ops == m_write_batch_op
        n == Len(ops)
        regs == Ioctl(hw, ops, n)
        Data(op) == IF op.isrdmsr THEN hw[op.reg] ELSE op.msrdata
        modified == [i \in 1..n |->
                       [ops[i] EXCEPT !.isrdmsr = FALSE,
                                      !.msrdata = (Data(ops[i]) \ ops[i].mask) \cup ops[i].val]]
        clean == [i \in 1..n |->
                    [modified[i] EXCEPT !.isrdmsr = TRUE, !.mask = {}, !.val = {}]]
    IN {Outcome(Ioctl(hw, ops, k), ops, "failed") : k \in 0..n - 1}
         \cup {Outcome(Ioctl(regs, modified, k), modified, "failed") : k \in 0..n - 1}
         \cup {Outcome(Ioctl(regs, modified, n), clean, "done")}

\* MSRIOGroup::write_batch()
MsrWriteBatch ==
    IF m_write_batch_op = <<>> THEN {Outcome(hw, <<>>, "done")}
    ELSE IF {c \in m_control_pushed : IsMsr(c)} \subseteq m_is_adjusted
         THEN MsrBatch
         ELSE {Outcome(hw, m_write_batch_op, "refused")}

\* SSTIO::write_batch() after the first j interfaces were read: they are read in
\* parts of BatchLimit, and modified by the place within the part.  Of what was
\* read the known fields are added that are not adjusted.
SstModified(ifs, regs, j) ==
    [i \in DOMAIN ifs |->
       [ifs[i] EXCEPT !.write_value =
          @ \cup UNION {(regs[ifs[k].reg] \cap Known(ifs[i].reg)) \ ifs[i].mask :
                          k \in {k \in 1..j : (k - 1) % BatchLimit = i - 1}}]]

\* All mailboxes, or all registers in memory.
SstWriteBatch(ifs, regs) ==
    LET n == Len(ifs)
        modified == SstModified(ifs, regs, n)
        Written(k) == Performed(regs, [i \in 1..n |-> Whole(ifs[i].reg, modified[i].write_value)],
                                k)
    IN {Outcome(regs, SstModified(ifs, regs, j), "failed") :
          j \in {j \in 0..n - 1 : j % BatchLimit = 0}}
         \cup {Outcome(Written(k), modified, "failed") : k \in 0..n - 1}
         \cup {Outcome(Written(n), modified, "done")}

WriteBatch ==
    /\ Call
    /\ \E m \in MsrWriteBatch :
         /\ m_write_batch_op' = m.entries
         /\ group_active' = (group_active \/ m.end = "done")
         /\ \/ /\ m.end # "done" /\ last' = "threw" /\ hw' = m.regs
               /\ UNCHANGED <<m_mbox_write, m_mmio_write>>
            \/ /\ m.end = "done"
               /\ \E s \in SstWriteBatch(m_mbox_write, m.regs) :
                    /\ m_mbox_write' = s.entries
                    /\ \/ /\ s.end # "done" /\ last' = "threw" /\ hw' = s.regs
                          /\ UNCHANGED m_mmio_write
                       \/ /\ s.end = "done"
                          /\ \E t \in SstWriteBatch(m_mmio_write, s.regs) :
                               /\ m_mmio_write' = t.entries /\ hw' = t.regs
                               /\ last' = IF t.end = "done" THEN "write_batch" ELSE "threw"
         /\ fails' = IF last' = "threw" /\ m.end # "refused" THEN fails + 1 ELSE fails
    /\ fails' <= MaxFail
    /\ fresh' = IF last' = "write_batch" THEN [r \in Register |-> Nothing] ELSE fresh
    /\ batch_failed' = (batch_failed \/ fails' # fails)
    /\ UNCHANGED <<pio, available, saved, m_control_pushed, m_is_adjusted, before>>

-----------------------------------------------------------------------------
(* save_control() and restore_control().                                    *)

\* Every control is saved and at once restored, which in SSTIO clears the bits
\* that the read mask hides; a name is removed where the driver refuses one of
\* its controls.  The controller saves once.
SaveControl ==
    /\ Call /\ ~m_do_restore /\ m_do_restore' = TRUE /\ last' = "save_control"
    /\ saved' = [c \in Control |->
         [i \in DOMAIN RegistersOf[c] |-> hw[RegistersOf[c][i]] \cap MaskOf[c]]]
    /\ \E refused \in SUBSET Refusable : \E at \in [refused -> DOMAIN Controls] :
         LET Rewrites(i) == /\ IsSst(Controls[i])
                            /\ NameOf[Controls[i]] \in refused => i < at[NameOf[Controls[i]]]
             rewritten == UNION {Range(RegistersOf[Controls[i]]) :
                                   i \in {i \in DOMAIN Controls : Rewrites(i)}}
         IN /\ \A name \in refused : NameOf[Controls[at[name]]] = name
            /\ available' = available \ refused
            /\ hw' = [r \in Register |->
                        IF r \in rewritten THEN hw[r] \cap Known(r) ELSE hw[r]]
    /\ before' = hw'
    /\ UNCHANGED <<m_is_active, m_control_pushed, m_is_adjusted, group_active, batches,
                   fails, fresh, batch_failed>>

\* Mutant: only what was pushed is restored.
RestoredPushed == m_control_pushed

Restored == {c \in Control : NameOf[c] \in available}

RestoreControl ==
    /\ Call /\ m_do_restore
    /\ Performs("restore_control",
                FlattenSeq([i \in DOMAIN Controls |-> IF Controls[i] \in Restored
                                                      THEN Restores(Controls[i]) ELSE <<>>]),
                FALSE)
    /\ UNCHANGED <<pio, groups, batches, history>>

Next ==
    \/ \E r \in Request : PushControl(r)
    \/ \E r \in Request, on \in BOOLEAN : Adjust(r, on) \/ WriteControl(r, on)
    \/ WriteBatch \/ SaveControl \/ RestoreControl

Spec == Init /\ [][Next]_vars

-----------------------------------------------------------------------------
(* Properties.                                                              *)

\* Every variable has a value of its C++ type; there is at most one operation
\* for a register.
TypeOK ==
    /\ hw \in [Register -> SUBSET Bits] /\ before \in [Register -> SUBSET Bits]
    /\ available \subseteq Name /\ m_is_adjusted \subseteq Range(MsrControls)
    /\ \A c \in Control : \A i \in DOMAIN saved[c] : saved[c][i] \subseteq MaskOf[c]
    /\ m_control_pushed \subseteq Control
    /\ \A i, j \in DOMAIN m_write_batch_op :
         m_write_batch_op[i].reg = m_write_batch_op[j].reg => i = j
    /\ \A i \in DOMAIN m_write_batch_op : m_write_batch_op[i].val \subseteq m_write_batch_op[i].mask
    /\ {m_is_active, m_do_restore, group_active, batch_failed} \subseteq BOOLEAN
    /\ last \in {"nothing", "threw", "push", "adjust", "write_control", "write_batch",
                 "save_control", "restore_control"}

\* PlatformIO.hpp:171-178: a restore_control() that returns undoes every change
\* made through PlatformIO since save_control() returned: settings written at once
\* or in batches, the enable bits set on the way, what calls that failed half way
\* had already written, and what batches of SSTIO wrote that nobody asked for (a
\* stale field, a field of another mailbox).  It promises nothing of a mailbox or
\* register in memory that has a field which was refused beside one that was not:
\* write_batch() writes both, restore_control() only the latter.
PartlyRefused(r) == SstAt(r) \cap Restored \notin {{}, SstAt(r)}
RestoreUndoes ==
    last = "restore_control" => \A r \in Register : ~PartlyRefused(r) => hw[r] = before[r]

\* PlatformIO.hpp:136-139: a write_batch() that returns has written the last value
\* given to adjust() for every field, and in the registers of MSRIO no bit that
\* belongs to no pushed control.  The code fails for a register in memory with two
\* fields pushed: both interfaces are read before either is written, so the second
\* puts the first field back (SSTIO.cpp:368-402).  It changes other fields of a
\* mailbox or register in memory too (the value kept from an earlier batch is added
\* to what is read, and beyond BatchLimit another mailbox's is).  Neither is said
\* here, nor anything of batches after one that failed.
WrittenTwice(r) ==
    \E c, d \in m_control_pushed \cap InMemory :
      c # d /\ r \in Range(RegistersOf[c]) \cap Range(RegistersOf[d])
PushedBits(r) ==
    UNION {MaskOf[c] : c \in {c \in m_control_pushed : r \in Range(RegistersOf[c])}}
BatchExact ==
    [][last' = "write_batch" /\ calls' # calls /\ ~batch_failed
         => \A r \in Register :
              /\ ~WrittenTwice(r) => hw'[r] \cap fresh[r].mask = fresh[r].val
              /\ SstAt(r) = {} => hw'[r] \ PushedBits(r) = hw[r] \ PushedBits(r)]_vars

===============================================================================
