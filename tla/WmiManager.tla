----------------------------- MODULE WmiManager -----------------------------
(***************************************************************************)
(* WMIManager of ConsoleApplication1: the COM objects it holds from its    *)
(* constructor to its destructor, and the query loops of GetOSVersion,     *)
(* GetUserData and GetLogs.                                                *)
(*                                                                         *)
(* An object is its reference count.  Calling a method through a pointer   *)
(* that is NULL, never assigned or already released is undefined: the      *)
(* program goes to pc = "undefined", where nothing more is said of it.     *)
(***************************************************************************)
EXTENDS Integers, Sequences

CONSTANTS MaxRows   \* bound: the rows that a query yields

Objects == {"locator", "cimv2_service", "default_service", "enumerator", "obj",
            "user_enum", "user_obj"}

Methods == {"GetOSVersion", "GetUserData", "GetLogs"}

(* The properties that a method gets of each row. *)
Fields(method) ==
  CASE method = "GetOSVersion" -> << "Caption", "Version" >>
    [] method = "GetUserData"  -> << "Caption", "FullName", "SID" >>
    [] method = "GetLogs"      -> << "SourceName", "Message", "EventType", "TimeGenerated" >>

VARIABLES
  pc,
  method,    \* the method that is called
  refs,      \* the references to each object that the program holds
  wql,       \* has the constructor come as far as the names?
  var,       \* the VARIANT: "empty", "scalar", or the property whose BSTR it owns
  field,     \* the position in Fields(method)
  rows,      \* the rows that the enumerator has named
  out,       \* the rows in the result
  leaked,    \* the properties whose strings nothing points to any more
  failures   \* the calls that failed

vars == << pc, method, refs, wql, var, field, rows, out, leaked, failures >>

Init ==
  /\ pc = "none" /\ method = "none" /\ refs = [o \in Objects |-> 0] /\ wql = FALSE
  /\ var = "empty" /\ field = 1 /\ rows = 0 /\ out = 0 /\ leaked = {} /\ failures = {}

Acquire(o) == refs' = [refs EXCEPT ![o] = @ + 1]
Release(os) == refs' = [o \in Objects |-> IF o \in os THEN refs[o] - 1 ELSE refs[o]]
Fails(call) == failures' = failures \cup {call}

Undefined ==
  /\ pc' = "undefined"
  /\ UNCHANGED << method, refs, wql, var, field, rows, out, leaked >>

-----------------------------------------------------------------------------
(* WMIManager(): the first failures return. *)
Start ==
  /\ pc = "none"
  /\ \E m \in Methods : method' = m
  /\ \/ pc' = "cimv2" /\ Acquire("locator") /\ UNCHANGED failures
     \/ pc' = "query" /\ Fails("CoCreateInstance") /\ UNCHANGED refs
  /\ UNCHANGED << wql, var, field, rows, out, leaked >>

(* If root\CIMV2 cannot be connected the locator is released, and called   *)
(* again for root\default: that ConnectServer is undefined.                *)
ConnectCimv2 ==
  /\ pc = "cimv2"
  /\ \/ pc' = "default" /\ Acquire("cimv2_service") /\ UNCHANGED failures
     \/ pc' = "default" /\ Release({"locator"}) /\ Fails("ConnectServer")
  /\ UNCHANGED << method, wql, var, field, rows, out, leaked >>

(* If root\default cannot be connected the two others are released; the    *)
(* pointers stay, for GetQueryEnumerator and the destructor to use.        *)
ConnectDefault ==
  /\ pc = "default"
  /\ IF refs["locator"] = 0 THEN Undefined /\ UNCHANGED failures
     ELSE /\ \/ Acquire("default_service") /\ UNCHANGED failures
             \/ Release({"cimv2_service", "locator"}) /\ Fails("ConnectServer")
          /\ pc' = "query" /\ wql' = TRUE
          /\ UNCHANGED << method, var, field, rows, out, leaked >>

(* ~WMIManager(): the pointers that were set are released. *)
Destroy ==
  /\ pc = "end"
  /\ IF wql /\ refs["locator"] = 0 THEN Undefined /\ UNCHANGED failures
     ELSE /\ refs' = [refs EXCEPT !["locator"] = 0, !["cimv2_service"] = 0, !["default_service"] = 0]
          /\ pc' = "done"
          /\ UNCHANGED << method, wql, var, field, rows, out, leaked, failures >>

-----------------------------------------------------------------------------
(* Mutant: the pointers are not tested. *)
QueryUntested(e, next, none) ==
  \/ refs["cimv2_service"] = 0 /\ Undefined /\ UNCHANGED failures
  \/ /\ refs["cimv2_service"] > 0 /\ pc' = next /\ Acquire(e)
     /\ UNCHANGED << method, wql, var, field, rows, out, leaked, failures >>

(* GetQueryEnumerator.  When ExecQuery fails the error object is asked for *)
(* a text: there may be none, and it is never released.                    *)
Query(e, next, none) ==
  IF ~wql THEN pc' = none /\ UNCHANGED << method, refs, wql, var, field, rows, out, leaked, failures >>
  ELSE IF refs["cimv2_service"] = 0 THEN Undefined /\ UNCHANGED failures
  ELSE \/ /\ pc' = next /\ Acquire(e)
          /\ UNCHANGED << method, wql, var, field, rows, out, leaked, failures >>
       \/ /\ pc' = none /\ Fails("ExecQuery") /\ leaked' = leaked \cup {"error"}
          /\ UNCHANGED << method, refs, wql, var, field, rows, out >>
       \/ Undefined /\ Fails("GetErrorInfo")

GetQueryEnumerator == pc = "query" /\ Query("enumerator", "next", "end")

(* A row, WBEM_S_FALSE, or a failure; the last two leave the loop. *)
NextRow ==
  /\ pc = "next"
  /\ \/ /\ rows < MaxRows /\ rows' = rows + 1
        /\ Acquire("obj") /\ pc' = "field" /\ field' = 1 /\ var' = "empty" /\ UNCHANGED failures
     \/ /\ Release({"enumerator"}) /\ pc' = "end"
        /\ UNCHANGED failures \/ Fails("Next")
        /\ UNCHANGED << rows, field, var >>
  /\ UNCHANGED << method, wql, out, leaked >>

Strings == var \notin {"empty", "scalar"}

(* What is lost when the VARIANT is forgotten. *)
Forgotten == IF Strings THEN {var} ELSE {}

(* VariantClear frees a string, VariantInit forgets it. *)
Drop(m) == leaked' = IF m = "GetLogs" THEN leaked ELSE leaked \cup Forgotten

(* Get(name): it may fail, or yield a value of another type. *)
GetField ==
  /\ pc = "field" /\ field <= Len(Fields(method))
  /\ Drop(method)
  /\ var' \in {"empty", "scalar", Fields(method)[field]}
  /\ field' = field + 1
  /\ UNCHANGED << pc, method, refs, wql, rows, out, failures >>

(* After the last property of GetUserData its bstrVal is made a part of    *)
(* the next query.  If it is not the SID's the pointer is what the VARIANT *)
(* held before.                                                            *)
UserQuery ==
  /\ pc = "field" /\ field > Len(Fields(method)) /\ method = "GetUserData"
  /\ \/ Query("user_enum", "user_next", "row")
     \/ var # "SID" /\ Undefined /\ Fails("SID")

(* Any result other than WBEM_S_FALSE is taken for a row: after a failure  *)
(* user_obj is not initialised.                                            *)
UserRow ==
  /\ pc = "user_next"
  /\ \/ /\ Drop(method) /\ var' \in {"empty", "scalar", "LocalPath"} /\ UNCHANGED failures
        /\ Acquire("user_obj") /\ pc' = "user_obj" /\ UNCHANGED << method, wql, field, rows, out >>
     \/ /\ Release({"user_enum"}) /\ pc' = "row"
        /\ UNCHANGED << method, wql, var, field, rows, out, leaked, failures >>
     \/ Undefined /\ Fails("user_Next")

(* Mutant: the row of the profile is not released. *)
UserRowEndsKeeping ==
  /\ pc = "user_obj" /\ pc' = "row"
  /\ Release({"user_enum"})
  /\ UNCHANGED << method, wql, var, field, rows, out, leaked, failures >>

UserRowEnds ==
  /\ pc = "user_obj" /\ pc' = "row"
  /\ Release({"user_obj", "user_enum"})
  /\ UNCHANGED << method, wql, var, field, rows, out, leaked, failures >>

(* The row goes to the result, and is released. *)
RowEnds ==
  /\ \/ pc = "row"
     \/ pc = "field" /\ field > Len(Fields(method)) /\ method # "GetUserData"
  /\ Drop(method) /\ var' = "empty"
  /\ Release({"obj"}) /\ out' = out + 1 /\ pc' = "next"
  /\ UNCHANGED << method, wql, field, rows, failures >>

Next ==
  \/ Start \/ ConnectCimv2 \/ ConnectDefault \/ GetQueryEnumerator \/ NextRow
  \/ GetField \/ UserQuery \/ UserRow \/ UserRowEnds \/ RowEnds \/ Destroy

Spec == Init /\ [][Next]_vars

-----------------------------------------------------------------------------
(* No method is called through a dead pointer, unless a ConnectServer, the *)
(* fetch of an error text, the Next of a user's profile or the Get of a    *)
(* SID failed before.  After a failed ConnectServer one always is, at the  *)
(* latest by the destructor.                                               *)
DefinedUnlessFailed ==
  /\ pc = "undefined" =>
       failures \cap {"ConnectServer", "GetErrorInfo", "user_Next", "SID"} # {}
  /\ pc = "done" => "ConnectServer" \notin failures

(* No COM object is released twice, and all are when the destructor has    *)
(* run, whatever failed on the way.  GetLogs forgets no string; the only   *)
(* thing it leaks is a query's error object.                               *)
AllReleased ==
  /\ \A o \in Objects : refs[o] \in 0..1
  /\ pc = "done" => \A o \in Objects : refs[o] = 0
  /\ pc = "done" /\ method = "GetLogs" => leaked \subseteq {"error"}

(* Every row that a query named is in the result when the method returns,  *)
(* whatever failed meanwhile.                                              *)
RowsComplete == pc \in {"end", "done"} => out = rows
=============================================================================
