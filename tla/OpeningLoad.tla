------------------------------ MODULE OpeningLoad ------------------------------
(****************************************************************************)
(* manage.py load_opening_balances: the go-live import of customer and      *)
(* supplier opening balances from a file, and the reconciliation report the *)
(* owner signs.                                                             *)
(*                                                                          *)
(* Every row is loaded in a transaction of its own, so a run that dies, or  *)
(* that a service refuses half way, leaves the rows before it loaded; the   *)
(* operator runs the file again. Two runs may overlap. A file amount is in  *)
(* tenths of a paisa: the file is not rounded, the ledger is.               *)
(****************************************************************************)
EXTENDS LedgerWalk

CONSTANTS Customers, Suppliers,  \* the parties that exist, by code
          Stranger,              \* a code that resolves to no party
          Runs,                  \* concurrent invocations of the command
          Files,                 \* the files an operator may pass
          MaxCrashes             \* bound: how often an invocation dies

Parties == Customers \cup Suppliers
Rows == [party : Parties \cup {Stranger}, amount : Int, dated : BOOLEAN]

ASSUME LoadAssumption ==
    /\ Customers \cap Suppliers = {}
    /\ Stranger \notin Parties
    /\ Files \subseteq Seq(Rows)
    /\ MaxCrashes \in Nat

VARIABLES
    file,     \* the file as it stands on disk
    edited,   \* history: the file was changed after the first invocation
    opening,  \* opening[p]: the amounts of the party's OPENING entries
    run,      \* each invocation of the command
    signed,   \* the files of the reports that say RECONCILED
    crashes   \* how often an invocation has died

loadVars == <<file, edited, opening, run, signed, crashes>>

\* An invocation, with the file it read and the row it is at.
NotRunning == [phase |-> "idle"]
Invocations == [phase : {"row", "insert", "reconcile"}, file : Files, at : Nat]

\* Half up, away from zero, to whole paise (ten tenths).
Magnitude(a) == IF a < 0 THEN -a ELSE a
ToMoney(a) == LET m == 10 * ((Magnitude(a) + 5) \div 10) IN IF a < 0 THEN -m ELSE m

----------------------------------------------------------------------------
(* _read: everything is validated before anything is written.               *)

Refused(rows, i) ==
    LET row == rows[i] IN
    \/ \E j \in 1..(i - 1) : rows[j].party = row.party
    \/ row.party \in Customers /\ row.amount <= 0
    \/ row.party \in Suppliers /\ (row.amount = 0 \/ ~row.dated)
    \/ row.party = Stranger

\* The positions of the rows it hands on to be loaded.
Accepted(rows) == {i \in 1..Len(rows) : ~Refused(rows, i)}
Clean(rows) == Accepted(rows) = 1..Len(rows)

LoadTypeOK ==
    /\ file \in Files
    /\ edited \in BOOLEAN
    /\ opening \in [Parties -> Seq(Int)]
    /\ run \in [Runs -> Invocations \cup {NotRunning}]
    /\ signed \subseteq Files
    /\ crashes \in 0..MaxCrashes

LoadInit ==
    /\ file \in Files
    /\ edited = FALSE
    /\ opening = [p \in Parties |-> <<>>]
    /\ run = [r \in Runs |-> NotRunning]
    /\ signed = {}
    /\ crashes = 0

----------------------------------------------------------------------------
(* handle                                                                   *)

\* A file with refused rows is loaded only with --allow-partial. A dry run writes
\* nothing and signs nothing, so it is not told apart from no run at all.
Start(r) ==
    /\ run[r] = NotRunning
    /\ \E partial \in BOOLEAN :
        /\ Clean(file) \/ partial
        /\ run' = [run EXCEPT ![r] = [phase |-> "row", file |-> file, at |-> 1]]
    /\ UNCHANGED <<file, edited, opening, signed, crashes>>

Row(r) == run[r].file[run[r].at]
Carried(p) == opening[p] # <<>>
NextRow(r) == run' = [run EXCEPT ![r].phase = "row", ![r].at = @ + 1]
Abort(r) == run' = [run EXCEPT ![r] = NotRunning]

\* _load, one row: those _read refused are not among them, and a party that has an OPENING
\* entry is already carried.
Mut_LoadCheck_NoSkip(r) ==
    /\ run[r].phase = "row"
    /\ IF run[r].at > Len(run[r].file)
         THEN run' = [run EXCEPT ![r].phase = "reconcile"]
         ELSE IF run[r].at \notin Accepted(run[r].file)
                THEN NextRow(r)
                ELSE run' = [run EXCEPT ![r].phase = "insert"]
    /\ UNCHANGED <<file, edited, opening, signed, crashes>>

LoadCheck(r) ==
    /\ run[r].phase = "row"
    /\ IF run[r].at > Len(run[r].file)
         THEN run' = [run EXCEPT ![r].phase = "reconcile"]
         ELSE IF run[r].at \notin Accepted(run[r].file) \/ Carried(Row(r).party)
                THEN NextRow(r)
                ELSE run' = [run EXCEPT ![r].phase = "insert"]
    /\ UNCHANGED <<file, edited, opening, signed, crashes>>

\* load_opening_balance returns the entry another run made meanwhile and refuses an
\* amount that rounds to nothing; load_supplier_opening_balance refuses both. A
\* refusal ends the command; the rows before it stay loaded.
Mut_LoadInsert_Twice(r) ==
    /\ run[r].phase = "insert"
    /\ LET p == Row(r).party
           amount == ToMoney(Row(r).amount)
       IN  IF amount # 0
             THEN /\ opening' = [opening EXCEPT ![p] = Append(@, amount)]
                  /\ NextRow(r)
             ELSE Abort(r) /\ UNCHANGED opening
    /\ UNCHANGED <<file, edited, signed, crashes>>

LoadInsert(r) ==
    /\ run[r].phase = "insert"
    /\ LET p == Row(r).party
           amount == ToMoney(Row(r).amount)
       IN  IF amount # 0 /\ ~Carried(p)
             THEN /\ opening' = [opening EXCEPT ![p] = Append(@, amount)]
                  /\ NextRow(r)
             ELSE /\ UNCHANGED opening
                  /\ IF amount # 0 /\ p \in Customers THEN NextRow(r) ELSE Abort(r)
    /\ UNCHANGED <<file, edited, signed, crashes>>

\* _reconcile: A sums the file's amounts, B the OPENING entry that _opening_entry finds
\* first, class by class.
OfClass(rows, class) == {i \in Accepted(rows) : rows[i].party \in class}
SourceTotal(rows, class) ==
    SumOf([i \in 1..Len(rows) |-> IF i \in OfClass(rows, class) THEN rows[i].amount ELSE 0],
          Len(rows))
OpeningAmount(p) == IF Carried(p) THEN Head(opening[p]) ELSE 0
LoadedTotal(rows, class) ==
    SumOf([i \in 1..Len(rows) |->
              IF i \in OfClass(rows, class) THEN OpeningAmount(rows[i].party) ELSE 0],
          Len(rows))

Mut_Reconciled_BothClasses(rows) ==
    SourceTotal(rows, Parties) = LoadedTotal(rows, Parties)

Reconciled(rows) ==
    \A class \in {Customers, Suppliers} : SourceTotal(rows, class) = LoadedTotal(rows, class)

\* The report: signed when nothing was refused and A = B.
Reconcile(r) ==
    /\ run[r].phase = "reconcile"
    /\ signed' = IF Clean(run[r].file) /\ Reconciled(run[r].file)
                   THEN signed \cup {run[r].file} ELSE signed
    /\ Abort(r)
    /\ UNCHANGED <<file, edited, opening, crashes>>

\* The process dies between two of its steps.
Die(r) ==
    /\ run[r] # NotRunning
    /\ crashes < MaxCrashes
    /\ crashes' = crashes + 1
    /\ Abort(r)
    /\ UNCHANGED <<file, edited, opening, signed>>

\* The operator corrects the file between runs.
EditFile ==
    /\ \E rows \in Files \ {file} : file' = rows
    /\ edited' = TRUE
    /\ UNCHANGED <<opening, run, signed, crashes>>

Step(r) == LoadCheck(r) \/ LoadInsert(r) \/ Reconcile(r)

LoadNext ==
    \/ \E r \in Runs : Start(r) \/ Step(r) \/ Die(r)
    \/ EditFile

LoadSpec == LoadInit /\ [][LoadNext]_loadVars

\* A started command runs on, and the operator of the runbook runs the file again for
\* as long as its report is not signed.
LoadFairness == \A r \in Runs : WF_loadVars(Step(r)) /\ WF_loadVars(Start(r) /\ file \notin signed)

FairLoadSpec == LoadSpec /\ LoadFairness

----------------------------------------------------------------------------
(* Properties                                                               *)

\* No party ever has two opening balances, however many runs overlap or are repeated.
OneOpeningEach == \A p \in Parties : Len(opening[p]) <= 1

\* A signed report stays true: each party of its file has an opening balance, the figures
\* it compared agree still, and for a class of which the file names one party, that party
\* was opened with the file's amount.
SignedIsLoaded ==
    \A rows \in signed :
        /\ Reconciled(rows)
        /\ \A i \in 1..Len(rows) :
              /\ Carried(rows[i].party)
              /\ \A class \in {Customers, Suppliers} :
                    OfClass(rows, class) = {i} => opening[rows[i].party] = <<rows[i].amount>>

\* "Re-runnable after a partial failure": a clean file in whole paise that nobody edits
\* is signed in the end, wherever earlier runs died and whoever ran it at the same time.
RerunsReconcile ==
    (/\ Clean(file)
     /\ \A i \in 1..Len(file) : file[i].amount % 10 = 0
     /\ [](~edited)) => <>(file \in signed)
================================================================================
