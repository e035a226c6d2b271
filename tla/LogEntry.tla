------------------------------ MODULE LogEntry ------------------------------
(***************************************************************************)
(* The Raft log entries as bytes: what SubmitOperation proposes and what   *)
(* applyRaftOp makes of it (cluster/cluster_raft.go).  An entry is its     *)
(* type and the values of its fields in the order of its WriteTo; the      *)
(* other modules have the entries as records.                              *)
(***************************************************************************)
EXTENDS Codec

optypeUserOpened   == 0
optypeUserClosed   == 1
optypeJoinChannel  == 2
optypeLeaveChannel == 3

\* The fields each WriteTo writes, in its order.
OpWriteTo(opt) ==
  CASE opt = optypeUserOpened   -> <<"String", "String", "String", "UInt64", "StrMap">>
    [] opt = optypeUserClosed   -> <<"String", "String", "UInt64">>
    [] opt = optypeJoinChannel  -> <<"String", "StrMap">>
    [] opt = optypeLeaveChannel -> <<"String", "StrMap">>

\* The orders in which the channels of an operation may be ranged over.
Orders(op) ==
  SetToSeqs(UNION {DOMAIN op.fields[i] :
                     i \in {i \in DOMAIN op.fields : OpWriteTo(op.opt)[i] = "StrMap"}})

\* The bytes SubmitOperation may propose.
SubmitOperation(op) ==
  {<<op.opt>> \o FlattenSeq([i \in DOMAIN op.fields |->
                              WriteField(OpWriteTo(op.opt)[i], op.fields[i], ord)]) :
     ord \in Orders(op)}

\* The fields each ReadFrom reads, in its order.
OpReadFrom(opt) ==
  CASE opt = optypeUserOpened   -> <<"String", "String", "String", "UInt64", "StrMap">>
    [] opt = optypeUserClosed   -> <<"String", "String", "UInt64">>
    [] opt = optypeJoinChannel  -> <<"String", "StrMap">>
    [] opt = optypeLeaveChannel -> <<"String", "StrMap">>

\* The operation applyRaftOp applies, or none: an unknown type, or a field
\* that cannot be read, is logged and skipped.
applyRaftOp(data) ==
  IF data[1] > optypeLeaveChannel THEN {}
  ELSE {[opt |-> data[1], fields |-> fields] :
          fields \in ReadFields(OpReadFrom(data[1]), Tail(data))}

\* Op is applied as it was submitted, in whatever order its channels are
\* written.
Kept(op) == \A data \in SubmitOperation(op) : applyRaftOp(data) = {op}
=============================================================================
