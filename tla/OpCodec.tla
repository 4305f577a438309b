------------------------------ MODULE OpCodec ------------------------------
(***************************************************************************)
(* The binary form of an operation (src/op_codec.cpp), one codec for the   *)
(* log and for snapshots.  A record is the sequence of the fields the      *)
(* Writer emits; the Reader takes them in order and throws when it runs    *)
(* out of bytes or meets an unknown type byte.  The bytes of one field     *)
(* (a length-prefixed string, floats, tagged metadata values) are one      *)
(* element here.                                                           *)
(***************************************************************************)
EXTENDS VectorStore

\* A Delete is its type and id.  The presence flag tells "leave the metadata
\* alone" from "set it", the empty map included.
encode_op(op) ==
    IF op.type = "Delete" THEN <<op.type, op.ext_id>>
    ELSE IF op.meta = NoMeta THEN <<op.type, op.ext_id, op.vec, "0">>
    ELSE <<op.type, op.ext_id, op.vec, "1", op.meta>>

\* Mutant: the presence flag is not looked at.
decode_op_no_flag(b) ==
    IF Len(b) < 2 \/ b[1] \notin OpTypes THEN NoOp
    ELSE IF b[1] = "Delete"
      THEN [type |-> "Delete", ext_id |-> b[2], vec |-> NoVec, meta |-> NoMeta]
    ELSE [type |-> b[1], ext_id |-> b[2], vec |-> b[3],
          meta |-> IF Len(b) = 5 THEN b[5] ELSE EmptyMeta]

\* NoOp is the exception.
decode_op(b) ==
    IF Len(b) < 2 \/ b[1] \notin OpTypes THEN NoOp
    ELSE IF b[1] = "Delete"
      THEN [type |-> "Delete", ext_id |-> b[2], vec |-> NoVec, meta |-> NoMeta]
    ELSE IF Len(b) < 4 \/ (b[4] # "0" /\ Len(b) < 5) THEN NoOp
    ELSE [type |-> b[1], ext_id |-> b[2], vec |-> b[3],
          meta |-> IF b[4] # "0" THEN b[5] ELSE NoMeta]

Encodings == {encode_op(op) : op \in Ops}
=============================================================================
