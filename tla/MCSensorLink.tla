---------------------------- MODULE MCSensorLink ----------------------------
(***************************************************************************)
(* Instances of SensorLink for TLC.                                         *)
(***************************************************************************)
EXTENDS SensorLink

\* Answers of one byte and with data, and of three that are not checked, of five.
MCCommands == {"UploadTemplate", "GetValidTemplateCount", "SearchFinger"}
\* One scan of the main loop.
ScanCommands == {"TakeImage", "ExtractFeatures", "SearchFinger"}
============================================================================
