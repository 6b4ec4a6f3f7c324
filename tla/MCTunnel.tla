-------------------------------- MODULE MCTunnel --------------------------------
(* Small instances of TunnelRun. *)
EXTENDS TunnelRun

MCAttempts == <<"tunnel1", "tunnel2", "tunnel3">>
MCContainer == {MCAttempts[i] : i \in DOMAIN MCAttempts}

=============================================================================
