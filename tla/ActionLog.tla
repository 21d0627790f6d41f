----------------------------- MODULE ActionLog -----------------------------
(***************************************************************************)
(* The Choice Record (class TransferAction) and the operations of the      *)
(* Scenario that rewrite the whole log at once: dropping the records that *)
(* were never taken (Scenario.preprocess_actions), and writing the log to  *)
(* its file and reading it back (save, load).  Scenario.backtrack is not   *)
(* here: the search never reaches it (Explore, RunFailed).                 *)
(*                                                                         *)
(* An entity is a logical thread or Main; a record's target may also be    *)
(* NoTarget (Python None: "decide the target later").  old_targets is a    *)
(* list in the code that is only ever appended to and tested with count(); *)
(* a set has the same meaning.                                             *)
(***************************************************************************)
EXTENDS Naturals, Sequences, SequencesExt

CONSTANTS
  Threads,     \* the descs of the group's member threads
  Main,        \* coroutine.main, whose desc is MAIN_LABEL
  NoTarget     \* a record whose target is still to be decided (None)

ASSUME {Main, NoTarget} \cap Threads = {}

Entity == Threads \cup {Main}

\* Record fields: source_label, yield_label, target_label, old_targets,
\* count, rem_count, taken, free.
Record(src, lbl, tgt, old, count, taken, free) ==
  [src |-> src, lbl |-> lbl, tgt |-> tgt, old |-> old,
   count |-> count, rem |-> count, taken |-> taken, free |-> free]

\* TransferAction.makeTransfer: a record of a transfer that is taken.
MakeTransfer(src, lbl, tgt, old, count, free) ==
  Record(src, lbl, tgt, old, count, TRUE, free)

\* TransferAction.makeYield: a yield point seen but not taken.  Threads
\* only ever yield to Main here, so free = (target = None \/ target = main)
\* is TRUE.
MakeYield(src, lbl) == Record(src, lbl, Main, {}, 1, FALSE, TRUE)

\* Mutant: the records that were never taken are kept.
PreprocessKeepAll(l) == [i \in 1..Len(l) |-> [l[i] EXCEPT !.rem = l[i].count]]

\* preprocess_actions(reset_actions=True): keep the taken records only and
\* restore rem_count to count.
Preprocess(l) ==
  LET kept == SelectSeq(l, LAMBDA a : a.taken)
  IN  [i \in 1..Len(kept) |-> [kept[i] EXCEPT !.rem = kept[i].count]]

-----------------------------------------------------------------------------
(***************************************************************************)
(* The action log file.  A line "source, yield_label, count -> target" is  *)
(* modelled by its four fields; a target None is written as the text       *)
(* "None", which parse reads back as a label no entity has.                *)
(***************************************************************************)
NoneText == "None"

\* TransferAction.__str__
Format(a) == [src |-> a.src, lbl |-> a.lbl, count |-> a.count, tgt |-> a.tgt]

\* Mutant: parse builds the record with makeYield, as not taken.
ParseAsYield(line) ==
  Record(line.src, line.lbl,
         IF line.tgt = NoTarget THEN NoneText ELSE line.tgt, {},
         line.count, FALSE, TRUE)

\* TransferAction.parse: a taken, free record without old_targets.
Parse(line) ==
  MakeTransfer(line.src, line.lbl,
               IF line.tgt = NoTarget THEN NoneText ELSE line.tgt, {},
               line.count, TRUE)

\* Scenario.save: preprocess_actions() (untaken records dropped, rem_count
\* kept), then one line per record.
Save(l) == LET kept == SelectSeq(l, LAMBDA a : a.taken)
           IN  [i \in 1..Len(kept) |-> Format(kept[i])]

\* Scenario.load: one record per line; the REPLAY Scenario's constructor
\* runs preprocess_actions(), which keeps them all (all are taken).
Load(lines) == [i \in 1..Len(lines) |-> Parse(lines[i])]

=============================================================================
