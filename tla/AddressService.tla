--------------------------- MODULE AddressService ---------------------------
(***************************************************************************)
(* A service that builds its indexes while the addresses are being         *)
(* updated: buildMatchingLists in internal/listmatcher/si/si.go            *)
(* (ListIndex) next to the runs of AddressUpdate, on one table.            *)
(*                                                                         *)
(* Nothing holds the table still: either query may see it in the middle of *)
(* a run, and the two may see different states of it.  The service never   *)
(* reads it again before it is restarted.                                  *)
(***************************************************************************)
EXTENDS AddressUpdate, ListIndex

CONSTANTS
    MaxRows,    \* rows of a file
    AddressOf   \* the address in each place of each file; initial ones in file 0

Places == (0..NumRuns) \X (1..MaxRows)

\* Whatever addresses are in the main table, the index builder can read them.
ASSUME AddressServiceAssumption ==
    /\ Country = "si"
    /\ MaxRows \in Nat
    /\ Len(Initial) <= MaxRows /\ \A f \in Files : Len(f) <= MaxRows
    /\ AddressOf \in [Places -> Address]
    /\ \A some \in SUBSET Places : {AddressOf[p] : p \in some} \in Tables

\* What the columns read by the service hold for these rows of the main table.
Columns(rows) == {AddressOf[<<m.row.from, m.row.at>>] : m \in rows}

ServiceTypeOK == TypeOK /\ IndexTypeOK

ServiceInit == Init /\ table = Columns(main) /\ IndexInit

ServiceNext ==
    \/ Next /\ table' = Columns(main') /\ UNCHANGED indexVars
    \/ Build /\ UNCHANGED vars

ServiceSpec == ServiceInit /\ [][ServiceNext]_<<vars, listVars>>

-----------------------------------------------------------------------------
\* No row that can be in the table spells the code otherwise.
SpelledNormally(k) ==
    \A r \in 0..NumRuns : \A i \in DOMAIN file[r] :
        LET c == AddressOf[<<r, i>>].code IN Norm[c] = k => c = k

\* An address that no file replaces can be found by its postal code, and its code by its
\* city, in every service that is up: in whatever step of a run either of its queries was
\* answered, and whatever has failed.  A code that some row spells in another way may
\* lose streets (si/database.go:64-118, 134-193, update_slovenian_addresses.py:242-263).
UntouchedFound ==
    phase = "ready" =>
        \A x \in RowsOf(0, DOMAIN Initial) : Untouched(x) =>
            LET there == {AddressOf[<<0, x.at>>]}
            IN /\ \A e \in StreetEntries(there) :
                    (Norm[e.code] = e.code /\ SpelledNormally(e.code))
                        => FormsOf[e.street] \subseteq streetsOf[e.code]
               /\ \A e \in CityEntries(there) :
                    Usable(e) => Norm[e.code] \in Range(codesOf[NameOf[e.city]])
=============================================================================
