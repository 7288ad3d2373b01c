----------------------------- MODULE SavedFilters -----------------------------
(***************************************************************************)
(* The filters that users save (InvestmentService): rows with an owner and *)
(* a value.  Updating and deleting look the row up by its id and its owner *)
(* and, an await later, write by its id alone.                             *)
(* A definition marked "Mistake" is a wrong version of the next one, used  *)
(* only to see that a property would catch it.                             *)
(***************************************************************************)
EXTENDS Naturals

CONSTANTS Owners,    \* users
          Calls,     \* calls that can be in flight together
          MaxFilters \* bound: filters ever saved

ASSUME FiltersAssumption == MaxFilters \in Nat /\ "nobody" \notin Owners

VARIABLES filters,  \* the rows: owner and the user whose value it has; or no row
          saved,    \* ids given out
          calls     \* updates and deletions in flight

filterVars == <<filters, saved, calls>>

FilterIds == 1..MaxFilters
NoRow == [owner |-> "nobody", by |-> "nobody"]
NoCall == [op |-> "none", id |-> 0, user |-> "nobody"]

FiltersInit ==
  /\ filters = [id \in FilterIds |-> NoRow]
  /\ saved = 0
  /\ calls = [c \in Calls |-> NoCall]

Row(id, row) == filters' = [filters EXCEPT ![id] = row]

saveFilter(user) ==
  /\ saved < MaxFilters
  /\ saved' = saved + 1
  /\ Row(saved + 1, [owner |-> user, by |-> user])
  /\ UNCHANGED calls

\* Mistake: by its id alone.
AnyFilter(id, user) == filters[id] # NoRow
(* findOne({where: {user: {user_id}, filter_id}}) *)
OwnFilter(id, user) == filters[id] # NoRow /\ filters[id].owner = user

(* Not found: 'Filter not found', and nothing happens. *)
LookUp(c, op, id, user) ==
  /\ calls[c] = NoCall
  /\ OwnFilter(id, user)
  /\ calls' = [calls EXCEPT ![c] = [op |-> op, id |-> id, user |-> user]]
  /\ UNCHANGED <<filters, saved>>

Return(c) == calls' = [calls EXCEPT ![c] = NoCall]

\* Mistake: save instead of update, which inserts a row that is not there.
UpdateBySave(c) ==
  /\ calls[c].op = "update"
  /\ Row(calls[c].id, [owner |-> calls[c].user, by |-> calls[c].user])
  /\ Return(c)
  /\ UNCHANGED saved
(* repo.update: no row, no change, and no error. *)
updateFilter(c) ==
  /\ calls[c].op = "update"
  /\ LET id == calls[c].id
     IN IF filters[id] = NoRow
        THEN UNCHANGED filters
        ELSE Row(id, [owner |-> filters[id].owner, by |-> calls[c].user])
  /\ Return(c)
  /\ UNCHANGED saved

deleteFilter(c) ==
  /\ calls[c].op = "delete"
  /\ Row(calls[c].id, NoRow)
  /\ Return(c)
  /\ UNCHANGED saved

(* The database fails, before or instead of the write. *)
FilterFails(c) ==
  /\ calls[c] # NoCall
  /\ Return(c)
  /\ UNCHANGED <<filters, saved>>

FiltersNext ==
  \/ \E user \in Owners : saveFilter(user)
  \/ \E c \in Calls, op \in {"update", "delete"}, id \in FilterIds, user \in Owners :
       LookUp(c, op, id, user)
  \/ \E c \in Calls : updateFilter(c) \/ deleteFilter(c) \/ FilterFails(c)

FiltersSpec == FiltersInit /\ [][FiltersNext]_filterVars

-------------------------------------------------------------------------------
(* getFilterUser: what a user sees. *)
getFilterUser(user) == {id \in FilterIds : filters[id].owner = user}

(* However calls overlap, what a user finds among the own filters is what that user
   wrote. *)
OnlyOwnerWrites ==
  \A user \in Owners : \A id \in getFilterUser(user) : filters[id].by = user

(* A filter that was deleted does not come back, even if it was being updated. *)
DeletedStaysDeleted ==
  [][\A id \in FilterIds :
       id <= saved /\ filters[id] = NoRow => filters'[id] = NoRow]_filterVars
===============================================================================
