--------------------------------- MODULE MCFtp ---------------------------------
(* Model checking of an FTP session.                                         *)
EXTENDS Ftp

(* TransferServer::StartTransferServer gives every user Permission::All.     *)
AllPermissions == [x \in User |-> Permission]
=============================================================================
