---------------------------- MODULE MCFileTransfer ----------------------------
(* Small files for FileTransfer. *)
EXTENDS FileTransfer

CONSTANTS a, b, up1, up2, down1, down2

\* Two files each way whose blocks differ and agree in turn.
FourFiles == [f \in {up1, up2, down1, down2} |->
                 CASE f = up1 -> <<a, b>> [] f = up2 -> <<b>>
                   [] f = down1 -> <<a, b>> [] OTHER -> <<b>>]
UploadLists == {<<up1, up2>>}
OneUpload == {<<up2>>}
DownloadLists == {<<down1, down2>>}

\* Nothing is left of earlier transfers, or a part that agrees here and there.
Old(files) == [f \in DOMAIN FourFiles |-> IF f \in files THEN <<b, b, a>> ELSE NoFile]
OldParts == {Old({}), Old({up1, down1})}
NoParts == {Old({})}
=============================================================================
