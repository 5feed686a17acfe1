------------------------------- MODULE MCPlugins -------------------------------
(***************************************************************************)
(* Plugins with two plugins that describe a function of the same name, one *)
(* of which is also a mandatory one.                                       *)
(***************************************************************************)
EXTENDS Plugins

CONSTANTS p, q

MCRegisters == [m \in Modules \cup {"core"} |->
  CASE m = p      -> {"file.Copy", "media.Info"}
    [] m = q      -> {"media.Info"}
    [] m = "core" -> {"file.Copy"}
    [] OTHER      -> {"json.Get"}]

MCUses == {<<"json", p>>, <<q>>}
================================================================================
