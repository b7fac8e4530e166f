------------------------------- MODULE WireText -------------------------------
(***************************************************************************)
(* Every text the library reads or writes that decides something, one at a *)
(* time and piece by piece: a line from a server (Lines), the name of an   *)
(* atKey (AtkeyText), the metadata of a command (MetadataText), the IV in  *)
(* the metadata of stored values (StoredValues) and the keys of a request  *)
(* and its answers (Rpc).                                                  *)
(***************************************************************************)
EXTENDS Lines, AtkeyText, MetadataText, StoredValues, Rpc

VARIABLE subject            \* which of them grows

textVars == <<subject, lineVars, nameVars, metadata, valueVars, rpcVars>>

Subjects == {"line", "answer", "name", "metadata", "value", "rpc"}

TextInit ==
    /\ subject \in Subjects
    /\ LineInit /\ NameInit /\ MetadataInit /\ ValuesInit /\ RpcInit

TextNext ==
    \/ /\ subject = "line"
       /\ ServerNext
       /\ UNCHANGED <<subject, nameVars, metadata, valueVars, rpcVars>>
    \/ /\ subject = "answer"
       /\ DirectoryNext
       /\ UNCHANGED <<subject, nameVars, metadata, valueVars, rpcVars>>
    \/ /\ subject = "name"
       /\ NameNext
       /\ UNCHANGED <<subject, lineVars, metadata, valueVars, rpcVars>>
    \/ /\ subject = "metadata"
       /\ MetadataNext
       /\ UNCHANGED <<subject, lineVars, nameVars, valueVars, rpcVars>>
    \/ /\ subject = "value"
       /\ ValuesNext
       /\ UNCHANGED <<subject, lineVars, nameVars, metadata, rpcVars>>
    \/ /\ subject = "rpc"
       /\ RpcNext
       /\ UNCHANGED <<subject, lineVars, nameVars, metadata, valueVars>>

TextSpec == TextInit /\ [][TextNext]_textVars
=============================================================================
