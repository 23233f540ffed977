----------------------------- MODULE FlashConfig -----------------------------
(***************************************************************************)
(* xconfig's redundant configuration: two MTD partitions each hold the     *)
(* XML text, its CRC and a generation number.  A session of the tool reads *)
(* both, takes the one of higher generation, edits it and writes the       *)
(* result over the other one with the generation counted up.  The          *)
(* generation is an attribute of the text, so a command can edit it like   *)
(* any other.  Power may fail, and a flash write may go wrong, at any      *)
(* moment.                                                                 *)
(***************************************************************************)
EXTENDS Naturals, Sequences, FiniteSets

CONSTANTS
    Procs,      \* sessions of xconfig that may run at the same time
    Configs,    \* configurations
    NoConfig,   \* none
    MaxGen      \* bound: the highest generation written

ASSUME ConfigAssumption == NoConfig \notin Configs /\ MaxGen \in Nat \ {0}

VARIABLES
    flash,   \* what each partition holds
    pc,      \* where each session is
    seen,    \* the partitions the session has read, in the order it read them
    edit,    \* the configuration the session is writing
    tree     \* the generation its command left in the tree; 0 if it writes none

vars == <<flash, pc, seen, edit, tree>>

-----------------------------------------------------------------------------

(* /dev/mtdblock* are read in descending order of their names.             *)
Copies == {1, 2}

Other(c) == 3 - c

(* What an interrupted or failed write leaves: no "<?xml" at the start, no *)
(* terminating NUL in the partition, or a CRC that does not match.         *)
Garbage == {"blank", "unterminated", "badcrc"}

(* "untagged" is a valid text without its <flash> element.                 *)
Blocks == [kind : {"good", "untagged"} \union Garbage,
           gen  : 0 .. MaxGen,
           cfg  : Configs]

Good(b) == b.kind = "good"

(* Generations that can still be counted up.                               *)
TreeGens == 0 .. MaxGen - 1

TypeOK ==
    /\ flash \in [Copies -> Blocks]
    /\ pc \in [Procs -> {"idle", "scan", "loaded", "writing", "refused"}]
    /\ seen \in [Procs -> Seq(Blocks)]
    /\ edit \in [Procs -> Configs \union {NoConfig}]
    /\ tree \in [Procs -> TreeGens]

(* As delivered: two good copies, of different generations unless they are *)
(* the same.                                                               *)
Init ==
    /\ flash \in [Copies -> [kind : {"good"}, gen : {0, 1}, cfg : Configs]]
    /\ flash[1].gen = flash[2].gen => flash[1].cfg = flash[2].cfg
    /\ pc = [p \in Procs |-> "idle"]
    /\ seen = [p \in Procs |-> <<>>]
    /\ edit = [p \in Procs |-> NoConfig]
    /\ tree = [p \in Procs |-> 0]

-----------------------------------------------------------------------------
(* xml_read_from_mtd                                                       *)

Start(p) ==
    /\ pc[p] \in {"idle", "refused"}
    /\ pc' = [pc EXCEPT ![p] = "scan"]
    /\ seen' = [seen EXCEPT ![p] = <<>>]
    /\ UNCHANGED <<flash, edit, tree>>

(* read_block_device and the CRC check.  A partition without a terminating *)
(* NUL is an error that ends the session; any other garbage is skipped.    *)
(* The search for "<?xml" runs past its five unterminated bytes into the   *)
(* heap: what it finds there can let a blank partition through to the      *)
(* search for the NUL.                                                     *)
ReadCopy(p) ==
    /\ pc[p] = "scan"
    /\ Len(seen[p]) < 2
    /\ LET b == flash[Len(seen[p]) + 1] IN
          /\ seen' = [seen EXCEPT ![p] = Append(@, b)]
          /\ \/ b.kind # "unterminated" /\ pc' = pc
             \/ /\ b.kind \in {"blank", "unterminated"}
                /\ pc' = [pc EXCEPT ![p] = "refused"]
    /\ UNCHANGED <<flash, edit, tree>>

(* Mutant: one readable copy is enough, the other one becomes the target.  *)
UsableOne(bs) == Good(bs[1]) \/ Good(bs[2])

(* The tool goes on only with two valid texts that both have their <flash> *)
(* element: a single valid one is turned into text through fis_root, which *)
(* that branch never parsed, so main finds no <variables> in it.           *)
Usable(bs) == Good(bs[1]) /\ Good(bs[2])

Load(p) ==
    /\ pc[p] = "scan"
    /\ Len(seen[p]) = 2
    /\ pc' = [pc EXCEPT ![p] = IF Usable(seen[p]) THEN "loaded" ELSE "refused"]
    /\ UNCHANGED <<flash, seen, edit, tree>>

(* Mutant: the newer copy is the one written.                              *)
TargetNewer(bs) == IF bs[1].gen > bs[2].gen THEN 1 ELSE 2

(* target: the copy with the lower generation, the first one on a tie.     *)
Target(bs) == IF bs[1].gen > bs[2].gen THEN 2 ELSE 1

-----------------------------------------------------------------------------
(* The command, save_to_flash and xml_write_to_mtd                         *)

(* A listing, an import file that cannot be read, "n" at the prompt, a     *)
(* text too long for the partition, or a tree whose <flash> lost its       *)
(* generation, which save_to_flash does not survive.                       *)
Quit(p) ==
    /\ pc[p] = "loaded"
    /\ pc' = [pc EXCEPT ![p] = "idle"]
    /\ UNCHANGED <<flash, seen, edit, tree>>

(* The trees a command can leave: it changes the nodes that match, or none *)
(* of them, and every command but the listing goes on to save the tree.    *)
(* An import of the wrong format saves it too, unchanged.                  *)
Edits == Configs

(* The generation of the tree is that of the copy taken or, as             *)
(* addattribute -f can set it to anything, any other.                      *)
EditedGens == TreeGens

(* write_block_device from its first byte on: until the last one is on the *)
(* flash the partition holds garbage.                                      *)
WriteBegin(p) ==
    /\ pc[p] = "loaded"
    /\ \E c \in Edits : edit' = [edit EXCEPT ![p] = c]
    /\ \E g \in EditedGens : tree' = [tree EXCEPT ![p] = g]
    /\ \E k \in Garbage : flash' = [flash EXCEPT ![Target(seen[p])].kind = k]
    /\ pc' = [pc EXCEPT ![p] = "writing"]
    /\ UNCHANGED seen

(* Mutant: the generation is left as it is.                                *)
NewGenSame(g) == g

(* save_to_flash counts up the generation it finds in the edited tree.     *)
NewGen(g) == g + 1

(* The write is complete.  save_to_flash also writes a tree from which the *)
(* command removed <flash>: its error for that is overwritten.             *)
WriteEnd(p) ==
    /\ pc[p] = "writing"
    /\ \E k \in {"good", "untagged"} :
          flash' = [flash EXCEPT ![Target(seen[p])] =
                       [kind |-> k, gen |-> NewGen(tree[p]), cfg |-> edit[p]]]
    /\ pc' = [pc EXCEPT ![p] = "idle"]
    /\ edit' = [edit EXCEPT ![p] = NoConfig]
    /\ tree' = [tree EXCEPT ![p] = 0]
    /\ UNCHANGED seen

(* fwrite or the flush in fclose failed; neither result is looked at.      *)
WriteFail(p) ==
    /\ pc[p] = "writing"
    /\ \E k \in Garbage : flash' = [flash EXCEPT ![Target(seen[p])].kind = k]
    /\ pc' = [pc EXCEPT ![p] = "idle"]
    /\ edit' = [edit EXCEPT ![p] = NoConfig]
    /\ tree' = [tree EXCEPT ![p] = 0]
    /\ UNCHANGED seen

PowerLoss ==
    /\ \E p \in Procs : pc[p] # "idle"
    /\ pc' = [p \in Procs |-> "idle"]
    /\ seen' = [p \in Procs |-> <<>>]
    /\ edit' = [p \in Procs |-> NoConfig]
    /\ tree' = [p \in Procs |-> 0]
    /\ UNCHANGED flash

-----------------------------------------------------------------------------

Session(p) ==
    \/ Start(p)
    \/ ReadCopy(p)
    \/ Load(p)
    \/ Quit(p)
    \/ WriteBegin(p)
    \/ WriteEnd(p)
    \/ WriteFail(p)

Next == (\E p \in Procs : Session(p)) \/ PowerLoss

Spec == Init /\ [][Next]_vars

-----------------------------------------------------------------------------
(* Properties                                                              *)

(* However an update is cut short, a good copy is left for the boot loader *)
(* and for the next session to look at.                                    *)
AlwaysOneGood == \E c \in Copies : Good(flash[c])

(* A good copy is given up only while the other one is good and at least   *)
(* as new: no write begins over the newest configuration ("find partition  *)
(* with lower generation and use it as target").                           *)
NeverErasesNewest ==
    [][\A c \in Copies :
          Good(flash[c]) /\ ~Good(flash'[c]) =>
              Good(flash[Other(c)]) /\ flash[Other(c)].gen >= flash[c].gen]_vars

(* "if only one working XML-partition: use its content, generation and     *)
(* pathname": no session is refused while exactly one copy is valid.       *)
UsesOnlyWorkingCopy ==
    \A p \in Procs :
        pc[p] = "refused" =>
            Cardinality({c \in Copies : flash[c].kind \notin Garbage}) # 1

-----------------------------------------------------------------------------
(* Refinement                                                              *)

(* The configuration in force: that of the good copy with the highest      *)
(* generation.                                                             *)
Newest ==
    IF Good(flash[1]) /\ (Good(flash[2]) => flash[1].gen > flash[2].gen) THEN 1 ELSE 2

InForce == flash[Newest].cfg

(* The configuration the session is writing.                               *)
Pending ==
    IF \E p \in Procs : edit[p] # NoConfig
    THEN edit[CHOOSE p \in Procs : edit[p] # NoConfig]
    ELSE NoConfig

Store == INSTANCE ConfigStore WITH config <- InForce, edit <- Pending

(* One session at a time sees an atomic register: the configuration in     *)
(* force changes only when a complete new one replaces it.                 *)
IsAtomic == Store!Spec

(* An update that reached its last byte is not lost: when a partition      *)
(* becomes good, the configuration just written is the one in force, so    *)
(* the next session and the boot loader take it and not the old one -      *)
(* unless the command itself set the generation below that of the copy it  *)
(* was given (save_to_flash, xml_write_to_mtd).                            *)
SavedIsInForce ==
    [][\A c \in Copies :
          ~Good(flash[c]) /\ Good(flash'[c]) =>
              \E p \in Procs :
                  /\ pc[p] = "writing"
                  /\ tree[p] >= flash[Other(c)].gen => InForce' = edit[p]]_vars

-----------------------------------------------------------------------------
(* The inductive invariant, for one session at a time: what the session    *)
(* has read is still what the partitions hold, except for the target it is *)
(* writing.                                                                *)

SeenIsCurrent ==
    \A p \in Procs :
        /\ pc[p] = "scan" =>
              Len(seen[p]) \in 0 .. 2 /\ \A i \in 1 .. Len(seen[p]) : seen[p][i] = flash[i]
        /\ pc[p] \in {"loaded", "writing"} =>
              /\ Len(seen[p]) = 2
              /\ Good(seen[p][1]) /\ Good(seen[p][2])
        /\ pc[p] = "loaded" => seen[p][1] = flash[1] /\ seen[p][2] = flash[2]
        /\ pc[p] = "writing" =>
              /\ seen[p][Other(Target(seen[p]))] = flash[Other(Target(seen[p]))]
              /\ flash[Target(seen[p])].kind \in Garbage
        /\ edit[p] \in Configs <=> pc[p] = "writing"

IInv == SeenIsCurrent /\ AlwaysOneGood

=============================================================================
