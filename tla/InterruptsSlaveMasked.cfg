\* hwint_slave leaves the line it masked as it is.
SPECIFICATION MaskSpec
CONSTANTS
  Lines = {0, 8, 9}
  MaxRequests = 2
PROPERTIES LineRestored
CHECK_DEADLOCK FALSE
