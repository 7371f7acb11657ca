------------------------------ MODULE MCAdapters ------------------------------
(* Logs of up to four lines, two of which are enough to fill the channel while *)
(* a third is being sent and a fourth published.                              *)
EXTENDS Adapters

MCNative == [s \in {"cowrie", "dionaea", "tpot"} |->
    CASE s = "cowrie"  -> {"cowrie.command.input", "cowrie.log.closed", "overlong"}
      [] s = "dionaea" -> {"login", "garbled"}
      [] OTHER         -> {"hit"}]
=============================================================================
