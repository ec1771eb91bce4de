CONSTANTS
  Messages <- MCCompleteResponses
  Keys <- MCEscapedKeys
  MaxId = 4
SPECIFICATION Spec
INVARIANT
  SerdeErrorMeansMalformed
