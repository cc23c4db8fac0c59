SPECIFICATION Spec
CONSTANT Slips = {"device", "window"}
\* A mutex left locked stops the client and the preview thread for good.
CHECK_DEADLOCK FALSE
INVARIANTS PreviewSound PictureSafe
PROPERTIES CallReturns CallbacksCome
